---------------------------- MODULE Spec2Model ----------------------------
(***************************************************************************)
(* Real-time delivery core of harsh11x/chat-app (backend/server.js wiring  *)
(* socket/auth.js, socket/chat.js, socket/call.js, socket/status.js and    *)
(* the Mongoose models Message, User, Chat and Call), with the edit and    *)
(* delete routes of routes/messageRoutes.js.                               *)
(*                                                                         *)
(* A socket.io connection is a socket object (userId, joined rooms) and    *)
(* the list of events the server has emitted to it.  Every async handler   *)
(* is a task whose steps are cut at its awaits, so that handlers of        *)
(* different connections interleave exactly where the event loop lets      *)
(* them.  A Mongoose document is loaded into the task (a private copy);    *)
(* save() sends the delta of the paths the task modified: an array push    *)
(* is a $push on the stored array, an assignment is a $set of the value    *)
(* computed from the private copy.                                         *)
(***************************************************************************)
EXTENDS Integers, Sequences, FiniteSets, TLC

\* ---------------------------------------------------------------- bounds
NConns == 3          \* socket.io connections that ever connect
MaxAuths == 1        \* authenticate events a connection sends
MaxSends == 2        \* send_message events received in a run
MaxMarks == 2        \* message_delivered / message_read events in a run
MaxCalls == 2        \* initiate_call events in a run
MaxUpdates == 2      \* update_status events received in a run
MaxMuts == 3         \* reaction, edit and delete requests received in a run
MaxEdits == 2        \* edit and delete requests in a run with a clock
MaxTime == 5         \* ticks of the server's clock in a run

Users == {"A", "B", "C"}
Conns == 1..NConns
NoUser == "none"                 \* socket.userId undefined
ChatIds == {"ch1"}               \* chats stored in the database
UnknownChat == "ch9"             \* a chat id Chat.findById does not find
TempIds == {"t1", "t2"}          \* client-side temporary ids
BadToken == "bad"                \* a JWT that jwt.verify refuses
NoToken == "missing"             \* no token in the payload or the handshake
GhostToken == "ghost"            \* a valid JWT whose user is not stored
NoChat == ""                     \* a payload without chatId or content
Removable == {"B"}               \* the member the group's admin removes
NoTime == 0 - 1                  \* a Date path that is not set
FirstText == "hi"                \* content.text of a message as it is sent

\* the user whose device opens connection c: A, B, C, then B's and C's
\* second devices
ClientUser(c) ==
  CASE c = 1 -> "A"
    [] c % 2 = 0 -> "B"
    [] OTHER -> "C"

\* the tokens the client of connection c can present
Tokens(c) == {ClientUser(c), BadToken}

\* event names by the feature that emits them
ChatEvents == {"authenticated", "authentication_error", "new_message",
               "message_error", "message_status_update"}
CallEvents == {"incoming_call", "call_initiated", "call_error",
               "call_accepted", "call_declined", "call_ended"}
PresenceEvents == {"authenticate", "authenticated", "authentication_error",
                   "user_offline"}
MessageEvents == {"error", "message_reaction", "message_edited",
                  "message_deleted", "message_status_update"}
StatusEvents == {"user_offline", "user_status_update"}
RelayEvents == {"authenticated", "user_typing", "webrtc_offer",
                "webrtc_answer", "webrtc_ice_candidate"}

VARIABLES
  connState,   \* connection -> "new" | "open" | "closed"
  userId,      \* socket.userId
  nAuth,       \* authenticate events the connection has sent
  rooms,       \* socket.rooms: the rooms the socket has joined
  inbox,       \* events the server emitted to the connection, in order
  chats,       \* Chat documents: participants with their isActive flag
  messages,    \* Message documents, in _id order
  sends,       \* send_message handler instances, in arrival order
  marks,       \* message_delivered / message_read handler instances
  calls,       \* Call documents, in creation order
  inits,       \* initiate_call handler instances
  online,      \* User.isOnline of every stored user
  offs,        \* connection -> the user its suspended status.js disconnect
               \* handler is about to set offline, or NoUser
  listens,     \* the event names the clients have registered listeners for
  ops,         \* accept_call / decline_call / end_call handler instances
  relays,      \* typing_* and webrtc_* handler instances, in arrival order
  clock,       \* the server's clock (new Date()), in ticks
  status,      \* User.status of every stored user
  updates,     \* update_status handler instances, in arrival order
  muts         \* add_reaction / remove_reaction / edit_message /
               \* delete_message handler instances and REST requests

vars == <<connState, userId, nAuth, rooms, inbox, chats, messages, sends,
          marks, calls, inits, online, offs, listens, ops, relays, clock,
          status, updates, muts>>

sessionVars == <<connState, userId, nAuth, rooms>>
presenceVars == <<online, offs>>
opVars == <<listens, ops, relays, clock>>
statusVars == <<status, updates>>

\* ------------------------------------------------------------- socket.io
Live(c) == connState[c] = "open"

\* io.to(room): the connected sockets that have joined the room
InRoom(room) == {c \in Conns : Live(c) /\ room \in rooms[c]}

\* socket.broadcast: every connected socket but c
Others(c) == {d \in Conns : Live(d) /\ d # c}

\* io.to(room).emit(ev): every socket of the room gets the event once; the
\* client keeps it when it has a listener for the event's name
EmitTo(box, targets, ev) ==
  [c \in Conns |-> IF c \in targets /\ ev.type \in listens
                     THEN Append(box[c], ev)
                     ELSE box[c]]

\* socket.emit(ev): the event reaches the socket while it is connected
EmitSocket(box, c, ev) == EmitTo(box, IF Live(c) THEN {c} ELSE {}, ev)

Ev(type, req, msg, tempId) ==
  [type |-> type, req |-> req, msg |-> msg, tempId |-> tempId]

\* ------------------------------------------------------------ Chat model
\* a membership test that forgets the isActive flag
isParticipantAnyEntry(part, u) == u \in DOMAIN part

\* chatSchema.methods.isParticipant on a loaded document
isParticipant(part, u) == u \in DOMAIN part /\ part[u].isActive

\* chatSchema.methods.isAdmin on a loaded document
isAdmin(part, u) ==
  /\ u \in DOMAIN part
  /\ part[u].isActive
  /\ part[u].role \in {"admin", "owner"}

\* chatSchema.virtual('activeParticipants')
activeParticipants(part) == {u \in DOMAIN part : part[u].isActive}

\* chatSchema.methods.removeParticipant
removeParticipant(part, u) ==
  IF u \in DOMAIN part
    THEN [part EXCEPT ![u] = [@ EXCEPT !.isActive = FALSE]]
    ELSE part

\* ------------------------------------------------------------------ Init
InitSession ==
  /\ connState = [c \in Conns |-> "new"]
  /\ userId = [c \in Conns |-> NoUser]
  /\ nAuth = [c \in Conns |-> 0]
  /\ rooms = [c \in Conns |-> {}]
  /\ inbox = [c \in Conns |-> <<>>]

\* a group of A, its owner, B and C, with groupInfo.settings.whoCanSendMessages,
\* as POST /api/chats stores it: without an entry in unreadCounts
GroupChat(whoCanSendMessages) ==
  [participants |->
     [u \in Users |-> [isActive |-> TRUE,
                       role |-> IF u = "A" THEN "owner" ELSE "member"]],
   type |-> "group",
   whoCanSendMessages |-> whoCanSendMessages,
   unreadCounts |-> <<>>]

\* chatSchema.statics.createPrivateChat: two members, each with a counter
PrivateChat(u1, u2) ==
  [participants |->
     [u \in {u1, u2} |-> [isActive |-> TRUE, role |-> "member"]],
   type |-> "private",
   whoCanSendMessages |-> "all",
   unreadCounts |-> [u \in {u1, u2} |-> 0]]

InitChats == chats = [ch \in ChatIds |-> GroupChat("all")]

\* nobody is connected, so every stored user is offline
InitPresence ==
  /\ online = [u \in Users |-> FALSE]
  /\ offs = [c \in Conns |-> NoUser]
  /\ status = [u \in Users |-> "offline"]
  /\ updates = <<>>
  /\ muts = <<>>

InitStore ==
  /\ InitChats
  /\ messages = <<>>
  /\ sends = <<>>
  /\ marks = <<>>
  /\ calls = <<>>
  /\ inits = <<>>
  /\ ops = <<>>
  /\ relays = <<>>
  /\ clock = 0

\* the clients listen to the chat and call events
Init ==
  /\ InitSession
  /\ InitPresence
  /\ InitStore
  /\ listens = ChatEvents \cup CallEvents

\* ------------------------------------------------------ session handlers
\* io.on('connection'): a new socket, not authenticated, in no room; a token
\* in the handshake is sent back to the client in an 'authenticate' event
Connect(c, hs) ==
  /\ connState[c] = "new"
  /\ connState' = [connState EXCEPT ![c] = "open"]
  /\ inbox' = IF hs # NoToken /\ "authenticate" \in listens
                THEN [inbox EXCEPT ![c] = Append(@, Ev("authenticate", 0, 0, hs))]
                ELSE inbox
  /\ UNCHANGED <<userId, nAuth, rooms, chats, messages, sends, marks,
                 calls, inits, presenceVars, statusVars, muts, opVars>>

\* an authenticate handler that stores the token's user id on the socket
\* before it has looked the user up
AuthenticateBindFirst(c, tok) ==
  /\ Live(c)
  /\ nAuth[c] < MaxAuths
  /\ nAuth' = [nAuth EXCEPT ![c] = @ + 1]
  /\ userId' = [userId EXCEPT ![c] = IF tok \in {NoToken, BadToken} THEN @ ELSE tok]
  /\ IF tok \in Users
       THEN /\ online' = [online EXCEPT ![tok] = TRUE]
            /\ status' = [status EXCEPT ![tok] = "online"]
            /\ rooms' = [rooms EXCEPT ![c] = @ \cup {tok}]
            /\ inbox' = EmitSocket(inbox, c, Ev("authenticated", 0, 0, tok))
       ELSE /\ inbox' = EmitSocket(inbox, c, Ev("authentication_error", 0, 0, tok))
            /\ UNCHANGED <<rooms, online, status>>
  /\ UNCHANGED <<connState, chats, messages, sends, marks, calls, inits,
                 offs, updates, muts, opVars>>

\* the authenticate handler on a socket: bind the verified user, set the
\* user online, join the user's room (socket.join adds a room and leaves none)
BindUser(c, tok) ==
  /\ Live(c)
  /\ nAuth' = [nAuth EXCEPT ![c] = @ + 1]
  /\ IF tok \in Users
       THEN /\ userId' = [userId EXCEPT ![c] = tok]
            /\ online' = [online EXCEPT ![tok] = TRUE]
            /\ status' = [status EXCEPT ![tok] = "online"]
            /\ rooms' = [rooms EXCEPT ![c] = @ \cup {tok}]
            /\ inbox' = EmitSocket(inbox, c, Ev("authenticated", 0, 0, tok))
       ELSE /\ inbox' = EmitSocket(inbox, c, Ev("authentication_error", 0, 0, tok))
            /\ UNCHANGED <<userId, rooms, online, status>>
  /\ UNCHANGED <<connState, chats, messages, sends, marks, calls, inits,
                 offs, updates, muts, opVars>>

\* socket.on('authenticate')
Authenticate(c, tok) == nAuth[c] < MaxAuths /\ BindUser(c, tok)

\* socket.on('authenticate') when user.setOnlineStatus(true) rejects: the
\* user id is already stored on the socket, the room is not joined and the
\* catch block reports authentication_error
AuthenticateSaveFail(c, tok) ==
  /\ Live(c)
  /\ nAuth[c] < MaxAuths
  /\ tok \in Users
  /\ nAuth' = [nAuth EXCEPT ![c] = @ + 1]
  /\ userId' = [userId EXCEPT ![c] = tok]
  /\ inbox' = EmitSocket(inbox, c, Ev("authentication_error", 0, 0, tok))
  /\ UNCHANGED <<connState, rooms, chats, messages, sends, marks, calls,
                 inits, presenceVars, statusVars, muts, opVars>>

\* socket.on('join_chat'): only an active participant joins the chat's room
JoinChat(c, ch) ==
  /\ Live(c)
  /\ userId[c] # NoUser
  /\ ch \in ChatIds
  /\ isParticipant(chats[ch].participants, userId[c])
  /\ ch \notin rooms[c]
  /\ rooms' = [rooms EXCEPT ![c] = @ \cup {ch}]
  /\ UNCHANGED <<connState, userId, nAuth, inbox, chats, messages, sends,
                 marks, calls, inits,
                 presenceVars, statusVars, muts, opVars>>

\* socket.on('leave_chat')
LeaveChat(c, ch) ==
  /\ Live(c)
  /\ ch \in rooms[c]
  /\ ch \in ChatIds
  /\ rooms' = [rooms EXCEPT ![c] = @ \ {ch}]
  /\ UNCHANGED <<connState, userId, nAuth, inbox, chats, messages, sends,
                 marks, calls, inits,
                 presenceVars, statusVars, muts, opVars>>

\* socket 'disconnect': socket.io takes the socket out of all its rooms and
\* the socket object and its client are gone; handlers of the socket that are
\* suspended at an await keep running with the userId they read on arrival
\* The 'disconnect' handler of socket/status.js reads socket.userId and
\* suspends at User.findById; the one of server.js broadcasts user_offline
\* with socket.userId at once, whoever else of the user is connected.
Disconnect(c) ==
  /\ Live(c)
  /\ connState' = [connState EXCEPT ![c] = "closed"]
  /\ rooms' = [rooms EXCEPT ![c] = {}]
  /\ userId' = [userId EXCEPT ![c] = NoUser]
  /\ nAuth' = [nAuth EXCEPT ![c] = 0]
  /\ offs' = [offs EXCEPT ![c] = userId[c]]
  /\ inbox' = [EmitTo(inbox, Others(c), Ev("user_offline", 0, 0, userId[c]))
                  EXCEPT ![c] = <<>>]
  /\ UNCHANGED <<chats, messages, sends, marks, calls, inits, online,
                 statusVars, muts, opVars>>

\* status.js 'disconnect' after its awaits: user.setOnlineStatus(false) is
\* saved and user_offline is broadcast to every other socket
OfflineSaved(c) ==
  /\ offs[c] # NoUser
  /\ offs' = [offs EXCEPT ![c] = NoUser]
  /\ online' = [online EXCEPT ![offs[c]] = FALSE]
  /\ status' = [status EXCEPT ![offs[c]] = "offline"]
  /\ inbox' = EmitTo(inbox, Others(c), Ev("user_offline", c, 0, offs[c]))
  /\ UNCHANGED <<sessionVars, chats, messages, sends, marks, calls, inits,
                 updates, muts, opVars>>

\* status.js 'disconnect' when User.findById or the save rejects: the catch
\* block only logs
OfflineFail(c) ==
  /\ offs[c] # NoUser
  /\ offs' = [offs EXCEPT ![c] = NoUser]
  /\ UNCHANGED <<sessionVars, inbox, chats, messages, sends, marks, calls,
                 inits, online, statusVars, muts, opVars>>

\* DELETE /api/chats/:chatId/participants/:participantId
RemoveParticipant(ch, u) ==
  /\ isParticipant(chats[ch].participants, u)
  /\ chats' = [chats EXCEPT ![ch].participants = removeParticipant(@, u)]
  /\ UNCHANGED <<connState, userId, nAuth, rooms, inbox, messages, sends,
                 marks, calls, inits,
                 presenceVars, statusVars, muts, opVars>>

\* ------------------------------------------- send_message (socket/chat.js)
SendIds == 1..Len(sends)

\* exit paths of the handler
SendExits == {"rejected", "failed", "errored", "done"}

\* the handler's copy of the counters is gone when the handler returns
SetSend(r, pc, part, msg) ==
  [sends EXCEPT ![r] = [@ EXCEPT !.pc = pc, !.part = part, !.msg = msg,
                                 !.counts = IF pc \in SendExits THEN <<>> ELSE @]]

\* io.to(chatId).emit('new_message', ...): the sockets of the chat's room
Recipients(ch) == InRoom(ch)

NewMessage(r) == Ev("new_message", r, sends[r].msg, sends[r].tempId)
MessageError(r) == Ev("message_error", r, 0, sends[r].tempId)

\* new Message({chatId, sender, content, status: 'sent'})
NewDoc(r) ==
  [chatId |-> sends[r].chatId, sender |-> sends[r].user, status |-> "sent",
   deliveredTo |-> <<>>, readBy |-> <<>>, req |-> r,
   text |-> FirstText, isEdited |-> FALSE, editedAt |-> NoTime,
   editHistory |-> <<>>, isDeleted |-> FALSE, deletedAt |-> NoTime,
   deletedFor |-> <<>>, reactions |-> <<>>, createdAt |-> clock, v |-> 0,
   forwardedFrom |-> NoChat]

\* temp ids are opaque to the server: a client reuses one it has sent or
\* takes the next unused one
UsedTempIds == {sends[r].tempId : r \in SendIds}
UsableTempIds ==
  UsedTempIds \cup
    (IF "t1" \notin UsedTempIds THEN {"t1"}
     ELSE IF "t2" \notin UsedTempIds THEN {"t2"} ELSE {})

\* the event arrives; socket.userId is read; missing data is refused at once
SendMessage(c, ch, t) ==
  /\ Live(c)
  /\ Len(sends) < MaxSends
  /\ t \in UsableTempIds
  /\ LET r == Len(sends) + 1
         ok == userId[c] # NoUser /\ ch # NoChat
         task == [conn |-> c, user |-> userId[c], chatId |-> ch, tempId |-> t,
                  pc |-> IF ok THEN "load" ELSE "rejected",
                  part |-> <<>>, msg |-> 0, counts |-> <<>>]
     IN /\ sends' = Append(sends, task)
        /\ inbox' = IF ok THEN inbox
                    ELSE EmitSocket(inbox, c, Ev("message_error", r, 0, t))
  /\ UNCHANGED <<sessionVars, chats, messages, marks, calls, inits,
                 presenceVars, statusVars, muts, opVars>>

\* await Chat.findById(chatId); then the participant check on the loaded copy
SendLoadChat(r) ==
  /\ sends[r].pc = "load"
  /\ LET ch == sends[r].chatId
         found == ch \in ChatIds
     IN IF found /\ isParticipant(chats[ch].participants, sends[r].user)
          THEN /\ sends' = [SetSend(r, "save", chats[ch].participants, 0)
                              EXCEPT ![r].counts = chats[ch].unreadCounts]
               /\ UNCHANGED inbox
          ELSE /\ sends' = SetSend(r, "rejected", <<>>, 0)
               /\ inbox' = EmitSocket(inbox, sends[r].conn, MessageError(r))
  /\ UNCHANGED <<sessionVars, chats, messages, marks, calls, inits,
                 presenceVars, statusVars, muts, opVars>>

\* await message.save() resolves: the store assigns the id
SendSaveOk(r) ==
  /\ sends[r].pc = "save"
  /\ messages' = Append(messages, NewDoc(r))
  /\ sends' = SetSend(r, "update", sends[r].part, Len(messages) + 1)
  /\ UNCHANGED <<sessionVars, inbox, chats, marks, calls, inits,
                 presenceVars, statusVars, muts, opVars>>

\* an optimistic handler: new_message leaves before the save has resolved
SendSaveFailOptimistic(r) ==
  /\ sends[r].pc = "save"
  /\ sends' = SetSend(r, "failed", sends[r].part, 0)
  /\ inbox' = EmitSocket(EmitTo(inbox, Recipients(sends[r].chatId), NewMessage(r)),
                         sends[r].conn, MessageError(r))
  /\ UNCHANGED <<sessionVars, chats, messages, marks, calls, inits,
                 presenceVars, statusVars, muts, opVars>>

\* await message.save() rejects: the catch block answers the sender
SendSaveFail(r) ==
  /\ sends[r].pc = "save"
  /\ sends' = SetSend(r, "failed", sends[r].part, 0)
  /\ inbox' = EmitSocket(inbox, sends[r].conn, MessageError(r))
  /\ UNCHANGED <<sessionVars, chats, messages, marks, calls, inits,
                 presenceVars, statusVars, muts, opVars>>

\* the loop over chat.activeParticipants but the sender, on the copy of the
\* chat the handler loaded: chatSchema.methods.incrementUnreadCount adds one
\* to the count of the copy and save() sends it as a $set of that count.
\* The counters followed are the entries the chat was created with.
incrementUnreadCounts(stored, r) ==
  [u \in DOMAIN stored |->
     IF isParticipant(sends[r].part, u) /\ u # sends[r].user
       THEN sends[r].counts[u] + 1
       ELSE stored[u]]

\* a handler that gives the fan-out up when its socket has disconnected
SendFanOutIfConnected(r) ==
  /\ sends[r].pc = "update"
  /\ sends' = SetSend(r, "done", sends[r].part, sends[r].msg)
  /\ inbox' = IF Live(sends[r].conn)
                THEN EmitTo(inbox, Recipients(sends[r].chatId), NewMessage(r))
                ELSE inbox
  /\ chats' = [chats EXCEPT ![sends[r].chatId].unreadCounts =
                               incrementUnreadCounts(@, r)]
  /\ UNCHANGED <<sessionVars, messages, marks, calls, inits,
                 presenceVars, statusVars, muts, opVars>>

\* populate, chat.updateLastMessage and the saves of the unread counters
\* resolve; then new_message goes to the chat's room, and the lookup of the offline
\* participants (await User.find) resolves
SendFanOut(r) ==
  /\ sends[r].pc = "update"
  /\ sends' = SetSend(r, "done", sends[r].part, sends[r].msg)
  /\ inbox' = EmitTo(inbox, Recipients(sends[r].chatId), NewMessage(r))
  /\ chats' = [chats EXCEPT ![sends[r].chatId].unreadCounts =
                               incrementUnreadCounts(@, r)]
  /\ UNCHANGED <<sessionVars, messages, marks, calls, inits,
                 presenceVars, statusVars, muts, opVars>>

\* populate or chat.updateLastMessage, between the save and the counters,
\* rejects
SendUpdateFail(r) ==
  /\ sends[r].pc = "update"
  /\ sends' = SetSend(r, "errored", sends[r].part, sends[r].msg)
  /\ inbox' = EmitSocket(inbox, sends[r].conn, MessageError(r))
  /\ UNCHANGED <<sessionVars, chats, messages, marks, calls, inits,
                 presenceVars, statusVars, muts, opVars>>

\* new_message is emitted and then await User.find(...) rejects
SendLookupFail(r) ==
  /\ sends[r].pc = "update"
  /\ sends' = SetSend(r, "errored", sends[r].part, sends[r].msg)
  /\ inbox' = EmitSocket(EmitTo(inbox, Recipients(sends[r].chatId), NewMessage(r)),
                         sends[r].conn, MessageError(r))
  /\ chats' = [chats EXCEPT ![sends[r].chatId].unreadCounts =
                               incrementUnreadCounts(@, r)]
  /\ UNCHANGED <<sessionVars, messages, marks, calls, inits,
                 presenceVars, statusVars, muts, opVars>>

SessionNext ==
  \/ \E c \in Conns : Connect(c, ClientUser(c))
  \/ \E c \in Conns : Authenticate(c, ClientUser(c))
  \/ \E c \in Conns : Disconnect(c)
  \/ \E c \in Conns : OfflineSaved(c)

RoomNext ==
  \/ \E c \in Conns, ch \in ChatIds : JoinChat(c, ch)
  \/ \E c \in Conns, ch \in ChatIds : LeaveChat(c, ch)
  \/ \E ch \in ChatIds, u \in Removable : RemoveParticipant(ch, u)

SendNext ==
  \/ \E c \in Conns, ch \in ChatIds \cup {UnknownChat}, t \in TempIds :
        SendMessage(c, ch, t)
  \/ \E r \in SendIds : SendLoadChat(r)
  \/ \E r \in SendIds : SendSaveOk(r)
  \/ \E r \in SendIds : SendSaveFail(r)
  \/ \E r \in SendIds : SendFanOut(r)
  \/ \E r \in SendIds : SendUpdateFail(r)
  \/ \E r \in SendIds : SendLookupFail(r)

Next == SessionNext \/ RoomNext \/ SendNext

Spec == Init /\ [][Next]_vars

\* the group lets only its admins send
InitAdmins ==
  /\ InitSession
  /\ InitPresence
  /\ chats = [ch \in ChatIds |-> GroupChat("admins")]
  /\ messages = <<>>
  /\ sends = <<>>
  /\ marks = <<>>
  /\ calls = <<>>
  /\ inits = <<>>
  /\ ops = <<>>
  /\ relays = <<>>
  /\ clock = 0
  /\ listens = ChatEvents

NextAdmins ==
  \/ SessionNext
  \/ \E c \in Conns, ch \in ChatIds : JoinChat(c, ch)
  \/ SendNext

SpecAdmins == InitAdmins /\ [][NextAdmins]_vars

\* ---------------------------------- unread counters (socket/chat.js, Chat)
MaxResets == 1       \* message_read events with a chatId a connection sends

UnreadEvents == ChatEvents \cup {"unread_count_reset"}

\* socket.emit('unread_count_reset', {chatId})
ResetEv(ch, u) == Ev("unread_count_reset", 0, ch, u)

\* the resets the connection has been told of
ResetsOf(c) ==
  Len(SelectSeq(inbox[c], LAMBDA e : e.type = "unread_count_reset"))

\* chatSchema.methods.resetUnreadCount on the stored counters
resetUnreadCount(counts, u) ==
  IF u \in DOMAIN counts THEN [counts EXCEPT ![u] = 0] ELSE counts

\* message_read {chatId} without a messageId: Chat.findById, then
\* chat.resetUnreadCount(userId) writes 0 whatever the copy held, then
\* unread_count_reset goes to the socket; without a userId the handler
\* throws and its catch block only logs
ReadChat(c, ch) ==
  /\ Live(c)
  /\ userId[c] # NoUser
  /\ ch \in ChatIds
  /\ ResetsOf(c) < MaxResets
  /\ chats' = [chats EXCEPT ![ch].unreadCounts = resetUnreadCount(@, userId[c])]
  /\ inbox' = EmitSocket(inbox, c, ResetEv(ch, userId[c]))
  /\ UNCHANGED <<sessionVars, messages, sends, marks, calls, inits,
                 presenceVars, statusVars, muts, opVars>>

\* A and B are connected, authenticated and in the room of their private
\* chat; no message has been sent
InitUnread ==
  /\ connState = [c \in Conns |-> "open"]
  /\ userId = [c \in Conns |-> ClientUser(c)]
  /\ nAuth = [c \in Conns |-> 1]
  /\ rooms = [c \in Conns |-> IF ClientUser(c) = "C"
                                THEN {"C"} ELSE {ClientUser(c), "ch1"}]
  /\ inbox = [c \in Conns |-> <<>>]
  /\ online = [u \in Users |-> \E c \in Conns : ClientUser(c) = u]
  /\ offs = [c \in Conns |-> NoUser]
  /\ status = [u \in Users |-> "online"]
  /\ updates = <<>>
  /\ muts = <<>>
  /\ chats = [ch \in ChatIds |-> PrivateChat("A", "B")]
  /\ messages = <<>>
  /\ sends = <<>>
  /\ marks = <<>>
  /\ calls = <<>>
  /\ inits = <<>>
  /\ ops = <<>>
  /\ relays = <<>>
  /\ clock = 0
  /\ listens = UnreadEvents

\* the members send to the chat and read it
NextUnread ==
  \/ \E c \in Conns, ch \in ChatIds : ReadChat(c, ch)
  \/ SendNext

SpecUnread == InitUnread /\ [][NextUnread]_vars

\* ------------------------- message_delivered / message_read (socket/chat.js)
MarkIds == 1..Len(marks)
MsgIds == 1..Len(messages)

Has(seq, u) == \E i \in 1..Len(seq) : seq[i] = u

\* messageSchema.methods.markAsDelivered, up to its save()
markAsDelivered(doc, u) ==
  IF Has(doc.deliveredTo, u)
    THEN doc
    ELSE [doc EXCEPT !.deliveredTo = Append(@, u),
                     !.status = IF @ = "sent" THEN "delivered" ELSE @]

\* messageSchema.methods.markAsRead, up to its save()
markAsRead(doc, u) ==
  IF Has(doc.readBy, u)
    THEN doc
    ELSE [doc EXCEPT !.readBy = Append(@, u), !.status = "read"]

\* the entries a task pushed onto an array of its copy
Pushed(loaded, modified) == SubSeq(modified, Len(loaded) + 1, Len(modified))

\* a save that writes the task's whole copy over the stored document
saveMessageWholeDocument(stored, loaded, modified) == modified

\* the task only pushed onto the array: the copy starts with what it loaded
IsPrefix(loaded, modified) ==
  /\ Len(loaded) <= Len(modified)
  /\ SubSeq(modified, 1, Len(loaded)) = loaded

\* the paths of the document that are arrays
ArrayPaths(doc) ==
  <<doc.deliveredTo, doc.readBy, doc.editHistory, doc.deletedFor,
    doc.reactions>>

\* an array that was assigned (this.reactions = filter(...)) to a different
\* value is saved as a $set of the whole array, with the version the
\* document was loaded with in the filter of the update
MessageVersionError(stored, loaded, modified) ==
  /\ ~IsPrefix(loaded.reactions, modified.reactions)
  /\ stored.v # loaded.v

\* document.save(): $push of the pushed entries, $set of the other modified
\* paths; every array operation increments the version
saveMessage(stored, loaded, modified) ==
  [stored EXCEPT
     !.deliveredTo = @ \o Pushed(loaded.deliveredTo, modified.deliveredTo),
     !.readBy = @ \o Pushed(loaded.readBy, modified.readBy),
     !.status = IF modified.status # loaded.status THEN modified.status ELSE @,
     !.text = IF modified.text # loaded.text THEN modified.text ELSE @,
     !.isEdited = IF modified.isEdited # loaded.isEdited
                    THEN modified.isEdited ELSE @,
     !.editedAt = IF modified.editedAt # loaded.editedAt
                    THEN modified.editedAt ELSE @,
     !.editHistory = @ \o Pushed(loaded.editHistory, modified.editHistory),
     !.isDeleted = IF modified.isDeleted # loaded.isDeleted
                     THEN modified.isDeleted ELSE @,
     !.deletedAt = IF modified.deletedAt # loaded.deletedAt
                     THEN modified.deletedAt ELSE @,
     !.deletedFor = @ \o Pushed(loaded.deletedFor, modified.deletedFor),
     !.reactions = IF IsPrefix(loaded.reactions, modified.reactions)
                     THEN @ \o Pushed(loaded.reactions, modified.reactions)
                     ELSE modified.reactions,
     !.v = IF ArrayPaths(modified) # ArrayPaths(loaded) THEN @ + 1 ELSE @]

StatusUpdate(r) ==
  Ev("message_status_update", r, marks[r].msg,
     IF marks[r].kind = "delivered" THEN "delivered" ELSE "read")

\* the event arrives; socket.userId is read; await Message.findById(messageId)
MarkRecv(c, kind, m) ==
  /\ Live(c)
  /\ Len(marks) < MaxMarks
  /\ marks' = Append(marks, [kind |-> kind, conn |-> c, user |-> userId[c],
                             msg |-> m, pc |-> "load", doc |-> <<>>])
  /\ UNCHANGED <<sessionVars, inbox, chats, messages, sends, calls, inits,
                 presenceVars, statusVars, muts, opVars>>

\* findById resolves; a message of another sender is marked on the copy
MarkLoad(r) ==
  /\ marks[r].pc = "load"
  /\ LET m == marks[r].msg
         found == m \in MsgIds
     IN IF found /\ marks[r].user # NoUser
              /\ messages[m].sender # marks[r].user
          THEN marks' = [marks EXCEPT ![r].pc = "save", ![r].doc = messages[m]]
          ELSE marks' = [marks EXCEPT ![r].pc = "skipped"]
  /\ UNCHANGED <<sessionVars, inbox, chats, messages, sends, calls, inits,
                 presenceVars, statusVars, muts, opVars>>

\* the save resolves; the status event goes to the chat's room
MarkSave(r) ==
  /\ marks[r].pc = "save"
  /\ LET m == marks[r].msg
         loaded == marks[r].doc
         modified == IF marks[r].kind = "delivered"
                       THEN markAsDelivered(loaded, marks[r].user)
                       ELSE markAsRead(loaded, marks[r].user)
     IN /\ messages' = [messages EXCEPT ![m] = saveMessage(@, loaded, modified)]
        /\ inbox' = EmitTo(inbox, InRoom(messages[m].chatId), StatusUpdate(r))
  /\ marks' = [marks EXCEPT ![r].pc = "done"]
  /\ UNCHANGED <<sessionVars, chats, sends, calls, inits,
                 presenceVars, statusVars, muts, opVars>>

\* the save rejects; the catch block only logs
MarkSaveFail(r) ==
  /\ marks[r].pc = "save"
  /\ marks' = [marks EXCEPT ![r].pc = "failed"]
  /\ UNCHANGED <<sessionVars, inbox, chats, messages, sends, calls, inits,
                 presenceVars, statusVars, muts, opVars>>

\* the database holds a message that A sent to the chat
StoredMessage ==
  [chatId |-> "ch1", sender |-> "A", status |-> "sent",
   deliveredTo |-> <<>>, readBy |-> <<>>, req |-> 0,
   text |-> FirstText, isEdited |-> FALSE, editedAt |-> NoTime,
   editHistory |-> <<>>, isDeleted |-> FALSE, deletedAt |-> NoTime,
   deletedFor |-> <<>>, reactions |-> <<>>, createdAt |-> 0, v |-> 0,
   forwardedFrom |-> NoChat]

InitStatus ==
  /\ InitSession
  /\ InitPresence
  /\ InitChats
  /\ messages = <<StoredMessage>>
  /\ sends = <<>>
  /\ marks = <<>>
  /\ calls = <<>>
  /\ inits = <<>>
  /\ ops = <<>>
  /\ relays = <<>>
  /\ clock = 0
  /\ listens = ChatEvents \cup CallEvents

MarkNext ==
  \/ \E c \in Conns, kind \in {"delivered", "read"}, m \in MsgIds :
        MarkRecv(c, kind, m)
  \/ \E r \in MarkIds : MarkLoad(r)
  \/ \E r \in MarkIds : MarkSave(r)
  \/ \E r \in MarkIds : MarkSaveFail(r)

NextStatus ==
  \/ SessionNext
  \/ \E c \in Conns, ch \in ChatIds : JoinChat(c, ch)
  \/ MarkNext

SpecStatus == InitStatus /\ [][NextStatus]_vars


\* -------- reactions, edit_message, delete_message (socket/chat.js, Message)
MutIds == 1..Len(muts)

Emojis == {"e1", "e2"}
NewText == "edited"              \* the new content of an edit

\* the edit and delete windows, in ticks of a quarter of an hour
fifteenMinutes == 1
oneHour == 4

\* reactions.filter(reaction => reaction.userId.toString() !== userId.toString())
Without(seq, u) == SelectSeq(seq, LAMBDA x : x.userId # u)

\* the filter throws a TypeError at toString() of an undefined user id
FilterThrows(seq, u) ==
  seq # <<>> /\ (u = NoUser \/ \E i \in 1..Len(seq) : seq[i].userId = NoUser)

\* messageSchema.methods.addReaction, up to its save()
addReaction(doc, u, emoji) ==
  [doc EXCEPT !.reactions = Append(Without(@, u),
                                   [userId |-> u, emoji |-> emoji])]

\* messageSchema.methods.removeReaction, up to its save()
removeReaction(doc, u) == [doc EXCEPT !.reactions = Without(@, u)]

\* messageSchema.methods.editMessage, up to its save()
editMessage(doc, newContent, now) ==
  [doc EXCEPT !.editHistory = Append(@, doc.text), !.text = newContent,
              !.isEdited = TRUE, !.editedAt = now]

\* deletedFor.some(deleted => deleted.userId.toString() === userId.toString())
SomeThrows(seq, u) ==
  /\ seq # <<>>
  /\ \/ u = NoUser
     \/ \E i \in 1..Len(seq) :
          seq[i] = NoUser /\ \A j \in 1..(i - 1) : seq[j] # u

\* messageSchema.methods.deleteMessage, up to its save()
deleteMessage(doc, u, deleteForEveryone, now) ==
  IF deleteForEveryone
    THEN [doc EXCEPT !.isDeleted = TRUE, !.deletedAt = now]
    ELSE IF Has(doc.deletedFor, u)
           THEN doc
           ELSE [doc EXCEPT !.deletedFor = Append(@, u)]

\* messageSchema.methods.isDeletedForUser
isDeletedForUser(doc, u) == doc.isDeleted \/ Has(doc.deletedFor, u)

\* socket.emit('error', {message})
ErrorEv(r, message) == Ev("error", r, muts[r].msg, message)

\* {messageId, userId, emoji, action}
ReactionEv(r) ==
  [type |-> "message_reaction", req |-> r, msg |-> muts[r].msg,
   tempId |-> muts[r].user, emoji |-> muts[r].arg,
   action |-> IF muts[r].kind = "add_reaction" THEN "add" ELSE "remove"]

\* {messageId, newContent, editedAt}
EditedEv(r) ==
  [type |-> "message_edited", req |-> r, msg |-> muts[r].msg,
   tempId |-> muts[r].arg]

\* {messageId, deletedBy, deleteForEveryone}
DeletedEv(r) ==
  [type |-> "message_deleted", req |-> r, msg |-> muts[r].msg,
   tempId |-> muts[r].user, deleteForEveryone |-> muts[r].arg]

\* the message of the catch block of each handler
Failed(kind) ==
  CASE kind = "add_reaction" -> "Failed to add reaction"
    [] kind = "remove_reaction" -> "Failed to remove reaction"
    [] kind = "edit_message" -> "Failed to edit message"
    [] OTHER -> "Failed to delete message"

SocketKinds ==
  {"add_reaction", "remove_reaction", "edit_message", "delete_message"}
RestKinds == {"PUT", "DELETE"}

\* the handler ends without a save: socket.emit('error') to the requester,
\* or the error response of the REST route
Refuse(r, pc, message) ==
  /\ muts' = [muts EXCEPT ![r].pc = pc, ![r].reply = message]
  /\ inbox' = IF muts[r].kind \in SocketKinds
                THEN EmitSocket(inbox, muts[r].conn, ErrorEv(r, message))
                ELSE inbox

\* the handler reaches the save() of the model method with its copy
ToSave(r, loaded, modified) ==
  /\ muts' = [muts EXCEPT ![r].pc = "save", ![r].doc = loaded,
                          ![r].mod = modified]
  /\ UNCHANGED inbox

\* a socket event arrives; socket.userId is read and Message.findById is
\* awaited
MutRecv(c, kind, m, arg) ==
  /\ Live(c)
  /\ Len(muts) < MaxMuts
  /\ muts' = Append(muts, [kind |-> kind, conn |-> c, user |-> userId[c],
                           msg |-> m, arg |-> arg, pc |-> "load",
                           doc |-> 0, mod |-> 0, reply |-> "", at |-> clock])
  /\ UNCHANGED <<sessionVars, inbox, chats, messages, sends, marks, calls,
                 inits, presenceVars, statusVars, opVars>>

\* PUT or DELETE /api/messages/:messageId of the authenticated user u
RestRecv(u, kind, m, arg) ==
  /\ Len(muts) < MaxMuts
  /\ muts' = Append(muts, [kind |-> kind, conn |-> 0, user |-> u,
                           msg |-> m, arg |-> arg, pc |-> "load",
                           doc |-> 0, mod |-> 0, reply |-> "", at |-> clock])
  /\ UNCHANGED <<sessionVars, inbox, chats, messages, sends, marks, calls,
                 inits, presenceVars, statusVars, opVars>>

\* add_reaction and remove_reaction after findById
ReactionLoad(r, doc) ==
  LET u == muts[r].user
  IN IF FilterThrows(doc.reactions, u)
       THEN Refuse(r, "failed", Failed(muts[r].kind))
       ELSE ToSave(r, doc, IF muts[r].kind = "add_reaction"
                             THEN addReaction(doc, u, muts[r].arg)
                             ELSE removeReaction(doc, u))

\* an edit_message handler that does not compare the sender with the user
EditLoadAnyUser(r, doc) ==
  LET u == muts[r].user
  IN IF u = NoUser
       THEN Refuse(r, "failed", Failed("edit_message"))
     ELSE IF clock - doc.createdAt > fifteenMinutes
       THEN Refuse(r, "rejected", "Message too old to edit")
     ELSE ToSave(r, doc, editMessage(doc, muts[r].arg, clock))

\* edit_message after findById: the sender check, then the 15 minutes
EditLoad(r, doc) ==
  LET u == muts[r].user
  IN IF u = NoUser
       THEN Refuse(r, "failed", Failed("edit_message"))
     ELSE IF doc.sender # u
       THEN Refuse(r, "rejected", "Unauthorized to edit this message")
     ELSE IF clock - doc.createdAt > fifteenMinutes
       THEN Refuse(r, "rejected", "Message too old to edit")
     ELSE ToSave(r, doc, editMessage(doc, muts[r].arg, clock))

\* delete_message after findById: for everyone, the sender check and the
\* hour
DeleteLoad(r, doc) ==
  LET u == muts[r].user
      deleteForEveryone == muts[r].arg
  IN IF deleteForEveryone /\ u = NoUser
       THEN Refuse(r, "failed", Failed("delete_message"))
     ELSE IF deleteForEveryone /\ doc.sender # u
       THEN Refuse(r, "rejected", "Unauthorized to delete for everyone")
     ELSE IF deleteForEveryone /\ clock - doc.createdAt > oneHour
       THEN Refuse(r, "rejected", "Message too old to delete for everyone")
     ELSE IF ~deleteForEveryone /\ SomeThrows(doc.deletedFor, u)
       THEN Refuse(r, "failed", Failed("delete_message"))
     ELSE ToSave(r, doc, deleteMessage(doc, u, deleteForEveryone, clock))

\* PUT /:messageId after findById: the schema has no path 'type', so
\* message.type !== 'text' holds of every message
PutLoad(r, doc) ==
  LET u == muts[r].user
  IN IF doc.sender # u
       THEN Refuse(r, "rejected", "Can only edit your own messages")
     ELSE IF doc.isDeleted \/ isDeletedForUser(doc, u)
       THEN Refuse(r, "rejected", "Cannot edit deleted message")
     ELSE Refuse(r, "rejected", "Can only edit text messages")

\* DELETE /:messageId after findById: deleteFor, 'me' or 'everyone', is
\* passed as deleteForEveryone, and both strings are truthy
RestDeleteLoad(r, doc) ==
  LET u == muts[r].user
  IN IF muts[r].arg = "everyone" /\ doc.sender # u
       THEN Refuse(r, "rejected",
                   "Can only delete for everyone your own messages")
     ELSE IF doc.isDeleted \/ isDeletedForUser(doc, u)
       THEN Refuse(r, "rejected", "Message is already deleted")
     ELSE ToSave(r, doc, deleteMessage(doc, u, TRUE, clock))

\* Message.findById resolves and the handler runs up to its next await
MutLoad(r) ==
  /\ muts[r].pc = "load"
  /\ LET m == muts[r].msg
         kind == muts[r].kind
     IN IF m \notin MsgIds
          THEN Refuse(r, "rejected", "Message not found")
        ELSE IF kind \in {"add_reaction", "remove_reaction"}
          THEN ReactionLoad(r, messages[m])
        ELSE IF kind = "edit_message" THEN EditLoad(r, messages[m])
        ELSE IF kind = "delete_message" THEN DeleteLoad(r, messages[m])
        ELSE IF kind = "PUT" THEN PutLoad(r, messages[m])
        ELSE RestDeleteLoad(r, messages[m])
  /\ UNCHANGED <<sessionVars, chats, messages, sends, marks, calls, inits,
                 presenceVars, statusVars, opVars>>

\* what the handler emits after its save
Notify(box, r) ==
  LET room == InRoom(messages[muts[r].msg].chatId)
      kind == muts[r].kind
  IN IF kind \in {"add_reaction", "remove_reaction"}
       THEN EmitTo(box, room, ReactionEv(r))
     ELSE IF kind = "edit_message" THEN EmitTo(box, room, EditedEv(r))
     ELSE IF kind = "delete_message"
       THEN IF muts[r].arg THEN EmitTo(box, room, DeletedEv(r))
                           ELSE EmitSocket(box, muts[r].conn, DeletedEv(r))
     ELSE box

\* the save() of the model method resolves, or is refused with a
\* VersionError that the catch block reports
MutSave(r) ==
  /\ muts[r].pc = "save"
  /\ LET m == muts[r].msg
     IN IF MessageVersionError(messages[m], muts[r].doc, muts[r].mod)
          THEN /\ Refuse(r, "failed", Failed(muts[r].kind))
               /\ UNCHANGED messages
          ELSE /\ messages' = [messages EXCEPT
                                 ![m] = saveMessage(@, muts[r].doc, muts[r].mod)]
               /\ muts' = [muts EXCEPT ![r].pc = "done", ![r].reply = "ok"]
               /\ inbox' = Notify(inbox, r)
  /\ UNCHANGED <<sessionVars, chats, sends, marks, calls, inits,
                 presenceVars, statusVars, opVars>>

\* the save() rejects for a reason of the database
MutSaveFail(r) ==
  /\ muts[r].pc = "save"
  /\ Refuse(r, "failed", Failed(muts[r].kind))
  /\ UNCHANGED <<sessionVars, chats, messages, sends, marks, calls, inits,
                 presenceVars, statusVars, opVars>>

\* time passes
Tick ==
  /\ clock < MaxTime
  /\ clock' = clock + 1
  /\ UNCHANGED <<sessionVars, inbox, chats, messages, sends, marks, calls,
                 inits, presenceVars, statusVars, muts, listens, ops, relays>>

\* A, B and C are connected, authenticated and in the room of the chat; the
\* database holds a message that A sent to it
InitMutate ==
  /\ connState = [c \in Conns |-> "open"]
  /\ userId = [c \in Conns |-> ClientUser(c)]
  /\ nAuth = [c \in Conns |-> 1]
  /\ rooms = [c \in Conns |-> {ClientUser(c), "ch1"}]
  /\ inbox = [c \in Conns |-> <<>>]
  /\ online = [u \in Users |-> \E c \in Conns : ClientUser(c) = u]
  /\ offs = [c \in Conns |-> NoUser]
  /\ status = [u \in Users |-> "online"]
  /\ updates = <<>>
  /\ muts = <<>>
  /\ InitChats
  /\ messages = <<StoredMessage>>
  /\ sends = <<>>
  /\ marks = <<>>
  /\ calls = <<>>
  /\ inits = <<>>
  /\ ops = <<>>
  /\ relays = <<>>
  /\ clock = 0
  /\ listens = MessageEvents

MutSteps ==
  \/ \E r \in MutIds : MutLoad(r)
  \/ \E r \in MutIds : MutSave(r)
  \/ \E r \in MutIds : MutSaveFail(r)

NextReact ==
  \/ \E c \in Conns, m \in MsgIds, e \in Emojis :
        MutRecv(c, "add_reaction", m, e)
  \/ \E c \in Conns, m \in MsgIds : MutRecv(c, "remove_reaction", m, "")
  \/ MutSteps

SpecReact == InitMutate /\ [][NextReact]_vars

\* a message id that Message.findById does not find
UnknownMessage == 0

\* the sender of the stored message and another member of the chat
Editors == {"A", "B"}
EditorConns == {c \in Conns : ClientUser(c) \in Editors}

\* edits and deletions, over the socket and over REST, while time passes
NextEdit ==
  \/ \E c \in EditorConns, m \in MsgIds \cup {UnknownMessage} :
        Len(muts) < MaxEdits /\ MutRecv(c, "edit_message", m, NewText)
  \/ \E c \in EditorConns, m \in MsgIds, deleteForEveryone \in BOOLEAN :
        Len(muts) < MaxEdits
          /\ MutRecv(c, "delete_message", m, deleteForEveryone)
  \/ \E u \in Editors, m \in MsgIds :
        Len(muts) < MaxEdits /\ RestRecv(u, "PUT", m, NewText)
  \/ \E u \in Editors, m \in MsgIds, deleteFor \in {"me", "everyone"} :
        Len(muts) < MaxEdits /\ RestRecv(u, "DELETE", m, deleteFor)
  \/ MutSteps
  \/ Tick

SpecEdit == InitMutate /\ [][NextEdit]_vars

\* B has reacted to A's message before
ReactedMessage ==
  [StoredMessage EXCEPT !.reactions = <<[userId |-> "B", emoji |-> "e1"]>>,
                        !.v = 1]

\* the clients also listen to the status events
InitMixed ==
  /\ connState = [c \in Conns |-> "open"]
  /\ userId = [c \in Conns |-> ClientUser(c)]
  /\ nAuth = [c \in Conns |-> 1]
  /\ rooms = [c \in Conns |-> {ClientUser(c), "ch1"}]
  /\ inbox = [c \in Conns |-> <<>>]
  /\ online = [u \in Users |-> \E c \in Conns : ClientUser(c) = u]
  /\ offs = [c \in Conns |-> NoUser]
  /\ status = [u \in Users |-> "online"]
  /\ updates = <<>>
  /\ muts = <<>>
  /\ InitChats
  /\ messages = <<ReactedMessage>>
  /\ sends = <<>>
  /\ marks = <<>>
  /\ calls = <<>>
  /\ inits = <<>>
  /\ ops = <<>>
  /\ relays = <<>>
  /\ clock = 0
  /\ listens = MessageEvents

\* reactions, edits and delivery reports of one message, interleaved; the
\* database refuses no save but for a version conflict
NextMixed ==
  \/ \E c \in EditorConns, m \in MsgIds, e \in Emojis :
        Len(muts) < MaxEdits /\ MutRecv(c, "add_reaction", m, e)
  \/ \E c \in EditorConns, m \in MsgIds :
        Len(muts) < MaxEdits /\ MutRecv(c, "remove_reaction", m, "")
  \/ \E c \in EditorConns, m \in MsgIds :
        Len(muts) < MaxEdits /\ MutRecv(c, "edit_message", m, NewText)
  \/ \E c \in Conns, kind \in {"delivered", "read"}, m \in MsgIds :
        MarkRecv(c, kind, m)
  \/ \E r \in MutIds : MutLoad(r)
  \/ \E r \in MutIds : MutSave(r)
  \/ \E r \in MarkIds : MarkLoad(r)
  \/ \E r \in MarkIds : MarkSave(r)

SpecMixed == InitMixed /\ [][NextMixed]_vars

\* the contents an edit asks for
EditTexts == {"edited", "again"}

\* edit_message events of the sender and of another member, the handlers
\* interleaving at their awaits
NextHistory ==
  \/ \E c \in EditorConns, m \in MsgIds, t \in EditTexts :
        MutRecv(c, "edit_message", m, t)
  \/ MutSteps

SpecHistory == InitMutate /\ [][NextHistory]_vars

\* ------------------------------------ forward_message (socket/chat.js)
ForwardEvents == {"new_message", "error", "messages_forwarded"}

\* the chats of the forwarding runs: A and B share ch1, B and C share ch2
SecondChat == "ch2"
ForwardChats == ChatIds \cup {SecondChat}

\* new Message({chatId, sender: userId, content: originalMessage.content,
\* forwardedFrom: {originalSender, originalChatId}, status: 'sent'})
ForwardedDoc(r, original) ==
  [chatId |-> muts[r].arg, sender |-> muts[r].user, status |-> "sent",
   deliveredTo |-> <<>>, readBy |-> <<>>, req |-> r,
   text |-> original.text, isEdited |-> FALSE, editedAt |-> NoTime,
   editHistory |-> <<>>, isDeleted |-> FALSE, deletedAt |-> NoTime,
   deletedFor |-> <<>>, reactions |-> <<>>, createdAt |-> clock, v |-> 0,
   forwardedFrom |-> original.chatId]

\* io.to(chatId).emit('new_message', {message: forwardedMessage})
ForwardedEv(r, id) == Ev("new_message", r, id, "forward")

\* socket.emit('messages_forwarded', {originalMessageId, forwardedCount})
ForwardCountEv(r, n) == Ev("messages_forwarded", r, muts[r].msg, n)

\* forward_message {messageId, targetChatIds: [ch]} arrives; socket.userId
\* is read and Message.findById is awaited
ForwardRecv(c, m, ch) ==
  /\ Live(c)
  /\ Len(muts) < MaxEdits
  /\ muts' = Append(muts, [kind |-> "forward_message", conn |-> c,
                           user |-> userId[c], msg |-> m, arg |-> ch,
                           pc |-> "find", doc |-> 0, mod |-> 0,
                           reply |-> "", at |-> clock])
  /\ UNCHANGED <<sessionVars, inbox, chats, messages, sends, marks, calls,
                 inits, presenceVars, statusVars, opVars>>

\* Message.findById resolves; Chat.findById of the target is awaited
ForwardFind(r) ==
  /\ muts[r].pc = "find"
  /\ IF muts[r].msg \notin MsgIds
       THEN Refuse(r, "rejected", "Original message not found")
       ELSE /\ muts' = [muts EXCEPT ![r].pc = "check",
                                    ![r].doc = messages[muts[r].msg]]
            /\ UNCHANGED inbox
  /\ UNCHANGED <<sessionVars, chats, messages, sends, marks, calls, inits,
                 presenceVars, statusVars, opVars>>

\* Chat.findById resolves: a chat that is missing or that the user is no
\* participant of is skipped and the loop ends with nothing forwarded;
\* chat.isParticipant throws at toString() of an undefined user id
ForwardCheck(r) ==
  /\ muts[r].pc = "check"
  /\ LET ch == muts[r].arg
     IN IF ch \in DOMAIN chats /\ muts[r].user = NoUser
          THEN Refuse(r, "failed", "Failed to forward message")
        ELSE IF ch \notin DOMAIN chats
                  \/ ~isParticipant(chats[ch].participants, muts[r].user)
          THEN /\ muts' = [muts EXCEPT ![r].pc = "done", ![r].reply = "ok"]
               /\ inbox' = EmitSocket(inbox, muts[r].conn, ForwardCountEv(r, 0))
          ELSE /\ muts' = [muts EXCEPT ![r].pc = "copy"]
               /\ UNCHANGED inbox
  /\ UNCHANGED <<sessionVars, chats, messages, sends, marks, calls, inits,
                 presenceVars, statusVars, opVars>>

\* forwardedMessage.save(), populate and chat.updateLastMessage resolve;
\* new_message goes to the room of the target chat and messages_forwarded
\* to the requester
ForwardCopy(r) ==
  /\ muts[r].pc = "copy"
  /\ messages' = Append(messages, ForwardedDoc(r, muts[r].doc))
  /\ muts' = [muts EXCEPT ![r].pc = "done", ![r].reply = "ok"]
  /\ inbox' = EmitSocket(EmitTo(inbox, InRoom(muts[r].arg),
                                ForwardedEv(r, Len(messages) + 1)),
                         muts[r].conn, ForwardCountEv(r, 1))
  /\ UNCHANGED <<sessionVars, chats, sends, marks, calls, inits,
                 presenceVars, statusVars, opVars>>

\* the save of the copy rejects
ForwardFail(r) ==
  /\ muts[r].pc = "copy"
  /\ Refuse(r, "failed", "Failed to forward message")
  /\ UNCHANGED <<sessionVars, chats, messages, sends, marks, calls, inits,
                 presenceVars, statusVars, opVars>>

\* A, B and C are connected and authenticated, each in the rooms of its
\* chats; ch1 holds a message of A
InitForward ==
  /\ connState = [c \in Conns |-> "open"]
  /\ userId = [c \in Conns |-> ClientUser(c)]
  /\ nAuth = [c \in Conns |-> 1]
  /\ rooms = [c \in Conns |->
                {ClientUser(c)}
                  \cup (IF ClientUser(c) \in {"A", "B"} THEN {"ch1"} ELSE {})
                  \cup (IF ClientUser(c) \in {"B", "C"} THEN {SecondChat} ELSE {})]
  /\ inbox = [c \in Conns |-> <<>>]
  /\ online = [u \in Users |-> \E c \in Conns : ClientUser(c) = u]
  /\ offs = [c \in Conns |-> NoUser]
  /\ status = [u \in Users |-> "online"]
  /\ updates = <<>>
  /\ muts = <<>>
  /\ chats = [ch \in ForwardChats |->
                IF ch = SecondChat THEN PrivateChat("B", "C")
                                   ELSE PrivateChat("A", "B")]
  /\ messages = <<StoredMessage>>
  /\ sends = <<>>
  /\ marks = <<>>
  /\ calls = <<>>
  /\ inits = <<>>
  /\ ops = <<>>
  /\ relays = <<>>
  /\ clock = 0
  /\ listens = ForwardEvents

NextForward ==
  \/ \E c \in Conns, m \in MsgIds \cup {UnknownMessage},
        ch \in ForwardChats \cup {UnknownChat} : ForwardRecv(c, m, ch)
  \/ \E r \in MutIds : ForwardFind(r)
  \/ \E r \in MutIds : ForwardCheck(r)
  \/ \E r \in MutIds : ForwardCopy(r)
  \/ \E r \in MutIds : ForwardFail(r)

SpecForward == InitForward /\ [][NextForward]_vars

\* the group after C has been removed from it
ChatWithout(u) ==
  [GroupChat("all") EXCEPT !.participants = removeParticipant(@, u)]

\* A and B are in the room of the chat, which holds A's message; C, who is
\* no longer a participant, is connected and authenticated
InitOutside ==
  /\ connState = [c \in Conns |-> "open"]
  /\ userId = [c \in Conns |-> ClientUser(c)]
  /\ nAuth = [c \in Conns |-> 1]
  /\ rooms = [c \in Conns |-> IF ClientUser(c) = "C"
                                THEN {"C"} ELSE {ClientUser(c), "ch1"}]
  /\ inbox = [c \in Conns |-> <<>>]
  /\ online = [u \in Users |-> \E c \in Conns : ClientUser(c) = u]
  /\ offs = [c \in Conns |-> NoUser]
  /\ status = [u \in Users |-> "online"]
  /\ updates = <<>>
  /\ muts = <<>>
  /\ chats = [ch \in ChatIds |-> ChatWithout("C")]
  /\ messages = <<StoredMessage>>
  /\ sends = <<>>
  /\ marks = <<>>
  /\ calls = <<>>
  /\ inits = <<>>
  /\ ops = <<>>
  /\ relays = <<>>
  /\ clock = 0
  /\ listens = MessageEvents

\* delivery reports, read reports and reactions of members and of C,
\* MaxEdits events in a run
NextOutside ==
  \/ \E c \in Conns, kind \in {"delivered", "read"}, m \in MsgIds :
        Len(marks) + Len(muts) < MaxEdits /\ MarkRecv(c, kind, m)
  \/ \E c \in Conns, m \in MsgIds, e \in Emojis :
        Len(marks) + Len(muts) < MaxEdits
          /\ MutRecv(c, "add_reaction", m, e)
  \/ \E r \in MarkIds : MarkLoad(r)
  \/ \E r \in MarkIds : MarkSave(r)
  \/ \E r \in MarkIds : MarkSaveFail(r)
  \/ MutSteps

SpecOutside == InitOutside /\ [][NextOutside]_vars

\* ------------------------------------------ initiate_call (socket/call.js)
InitIds == 1..Len(inits)
CallIds == 1..Len(calls)

CallEv(type, r, call) == Ev(type, r, call, "")


\* a participants entry as the schema creates it
NewParticipant(u, role, st) ==
  [userId |-> u, role |-> role, status |-> st,
   joinedAt |-> NoTime, leftAt |-> NoTime, duration |-> NoTime]

\* new Call({caller, participants: [caller calling, target ringing],
\*           status: 'ringing'})
NewCall(caller, target) ==
  [caller |-> caller,
   participants |-> <<NewParticipant(caller, "caller", "calling"),
                      NewParticipant(target, "receiver", "ringing")>>,
   status |-> "ringing",
   startedAt |-> NoTime, endedAt |-> NoTime, duration |-> 0,
   endReason |-> "completed",
   isMissed |-> FALSE, missedBy |-> <<>>,
   v |-> 0]

\* the event arrives; socket.userId is read; missing data is refused at once
InitiateCall(c, target) ==
  /\ Live(c)
  /\ Len(inits) < MaxCalls
  /\ LET r == Len(inits) + 1
         ok == userId[c] # NoUser /\ target # NoUser
     IN /\ inits' = Append(inits, [conn |-> c, user |-> userId[c],
                                   target |-> target, call |-> 0,
                                   pc |-> IF ok THEN "save" ELSE "rejected"])
        /\ inbox' = IF ok THEN inbox
                    ELSE EmitSocket(inbox, c, CallEv("call_error", r, 0))
  /\ UNCHANGED <<sessionVars, chats, messages, sends, marks, calls,
                 presenceVars, statusVars, muts, opVars>>

\* await call.save() resolves: incoming_call goes to the target's room and
\* call_initiated to the caller's socket
InitiateSaved(r) ==
  /\ inits[r].pc = "save"
  /\ LET id == Len(calls) + 1
     IN /\ calls' = Append(calls, NewCall(inits[r].user, inits[r].target))
        /\ inits' = [inits EXCEPT ![r].pc = "done", ![r].call = id]
        /\ inbox' = EmitSocket(
                      EmitTo(inbox, InRoom(inits[r].target),
                             CallEv("incoming_call", r, id)),
                      inits[r].conn, CallEv("call_initiated", r, id))
  /\ UNCHANGED <<sessionVars, chats, messages, sends, marks,
                 presenceVars, statusVars, muts, opVars>>

\* await call.save() rejects
InitiateFail(r) ==
  /\ inits[r].pc = "save"
  /\ inits' = [inits EXCEPT ![r].pc = "failed"]
  /\ inbox' = EmitSocket(inbox, inits[r].conn, CallEv("call_error", r, 0))
  /\ UNCHANGED <<sessionVars, chats, messages, sends, marks, calls,
                 presenceVars, statusVars, muts, opVars>>

CallNext ==
  \/ \E c \in Conns, target \in Users \cup {NoUser} : InitiateCall(c, target)
  \/ \E r \in InitIds : InitiateSaved(r)
  \/ \E r \in InitIds : InitiateFail(r)

NextCall == SessionNext \/ CallNext

SpecCall == Init /\ [][NextCall]_vars

\* ------------------------- accept_call / decline_call / end_call (call.js)
MaxOps == 3          \* accept_call / decline_call / end_call events in a run
UnknownCall == 0                 \* a callId Call.findOne does not find

OpIds == 1..Len(ops)

\* this.participants.find(p => p.userId.toString() === userId.toString()):
\* the position of the first entry of the user, 0 when there is none
FindParticipant(doc, u) ==
  IF \E i \in DOMAIN doc.participants : doc.participants[i].userId = u
    THEN CHOOSE i \in DOMAIN doc.participants :
           /\ doc.participants[i].userId = u
           /\ \A j \in 1..(i - 1) : doc.participants[j].userId # u
    ELSE 0

\* callSchema.methods.updateParticipantStatus on a loaded document
updateParticipantStatus(doc, u, st, now) ==
  LET i == FindParticipant(doc, u)
      p == doc.participants[i]
      joined == IF st = "connected" /\ p.joinedAt = NoTime THEN now ELSE p.joinedAt
      leaves == st = "disconnected" /\ p.leftAt = NoTime
  IN IF i = 0 THEN doc
     ELSE [doc EXCEPT !.participants[i] =
             [p EXCEPT !.status = st,
                       !.joinedAt = joined,
                       !.leftAt = IF leaves THEN now ELSE @,
                       !.duration = IF leaves /\ joined # NoTime
                                      THEN now - joined ELSE @]]

\* callSchema.methods.startCall
startCall(doc, now) == [doc EXCEPT !.status = "connected", !.startedAt = now]

\* the participants the end of the call finds still ringing or calling
MissedParticipants(doc) ==
  SelectSeq(doc.participants,
            LAMBDA p : p.status = "ringing" \/ p.status = "calling")

UserIdsOf(seq) == [i \in DOMAIN seq |-> seq[i].userId]

\* one participant after the end of the call at time now
LeaveAt(p, now) ==
  IF p.status = "connected"
    THEN [p EXCEPT !.status = "disconnected",
                   !.leftAt = now,
                   !.duration = IF p.joinedAt # NoTime THEN now - p.joinedAt ELSE @]
    ELSE p

\* callSchema.methods.endCall
endCall(doc, endReason, now) ==
  LET missed == MissedParticipants(doc)
  IN [doc EXCEPT
        !.status = "ended",
        !.endedAt = now,
        !.endReason = endReason,
        !.duration = IF doc.startedAt # NoTime THEN now - doc.startedAt ELSE @,
        !.participants =
           [i \in DOMAIN doc.participants |-> LeaveAt(doc.participants[i], now)],
        !.isMissed = IF Len(missed) > 0 THEN TRUE ELSE @,
        !.missedBy = IF Len(missed) > 0 THEN UserIdsOf(missed) ELSE @]

\* callSchema.methods.declineCall
declineCall(doc, u, now) ==
  LET i == FindParticipant(doc, u)
      d == IF i = 0 THEN doc
           ELSE [doc EXCEPT !.participants[i].status = "declined"]
      active == SelectSeq(d.participants,
                  LAMBDA p : p.status # "declined" /\ p.status # "disconnected")
  IN IF Len(active) <= 1 THEN endCall(d, "declined", now) ELSE d

\* one path of a save: $set to the task's value when the task modified it
SetIfModified(stored, loaded, modified) ==
  IF modified # loaded THEN modified ELSE stored

\* a save that touches an entry of participants or replaces missedBy carries
\* the version the document was loaded with in its filter
NeedsVersion(loaded, modified) ==
  \/ modified.participants # loaded.participants
  \/ modified.missedBy # loaded.missedBy

VersionError(stored, loaded, modified) ==
  NeedsVersion(loaded, modified) /\ stored.v # loaded.v

\* call.save(): a $set of every modified path; replacing the missedBy array
\* increments the version
saveCall(stored, loaded, modified) ==
  [caller |-> stored.caller,
   participants |->
     [i \in DOMAIN stored.participants |->
        [userId |-> stored.participants[i].userId,
         role |-> stored.participants[i].role,
         status |-> SetIfModified(stored.participants[i].status,
                                  loaded.participants[i].status,
                                  modified.participants[i].status),
         joinedAt |-> SetIfModified(stored.participants[i].joinedAt,
                                    loaded.participants[i].joinedAt,
                                    modified.participants[i].joinedAt),
         leftAt |-> SetIfModified(stored.participants[i].leftAt,
                                  loaded.participants[i].leftAt,
                                  modified.participants[i].leftAt),
         duration |-> SetIfModified(stored.participants[i].duration,
                                    loaded.participants[i].duration,
                                    modified.participants[i].duration)]],
   status |-> SetIfModified(stored.status, loaded.status, modified.status),
   startedAt |-> SetIfModified(stored.startedAt, loaded.startedAt,
                               modified.startedAt),
   endedAt |-> SetIfModified(stored.endedAt, loaded.endedAt, modified.endedAt),
   duration |-> SetIfModified(stored.duration, loaded.duration,
                              modified.duration),
   endReason |-> SetIfModified(stored.endReason, loaded.endReason,
                               modified.endReason),
   isMissed |-> SetIfModified(stored.isMissed, loaded.isMissed,
                              modified.isMissed),
   missedBy |-> SetIfModified(stored.missedBy, loaded.missedBy,
                              modified.missedBy),
   v |-> IF modified.missedBy # loaded.missedBy THEN stored.v + 1 ELSE stored.v]

\* participantIds.forEach(id => io.to(id).emit(ev))
EmitToParticipants(box, doc, ev) ==
  EmitTo(EmitTo(box, InRoom(doc.participants[1].userId), ev),
         InRoom(doc.participants[2].userId), ev)

OpEv(type, r) == Ev(type, r, ops[r].call, ops[r].user)

SetOp(r, pc, doc) == [ops EXCEPT ![r].pc = pc, ![r].doc = doc]

\* the document the task holds once its save is acknowledged
Saved(r, modified) ==
  [modified EXCEPT !.v = saveCall(calls[ops[r].call], ops[r].doc, modified).v]

\* the event arrives; socket.userId is read and Call.findOne is awaited
CallOp(c, kind, id) ==
  /\ Live(c)
  /\ Len(ops) < MaxOps
  /\ ops' = Append(ops, [conn |-> c, user |-> userId[c], kind |-> kind,
                         call |-> id, pc |-> "load", doc |-> 0])
  /\ UNCHANGED <<sessionVars, inbox, chats, messages, sends, marks, calls,
                 inits, presenceVars, statusVars, muts, listens, relays, clock>>

\* Call.findOne resolves: an unknown call is refused; accept and decline by
\* a socket without userId throw at userId.toString() and reach the catch
OpLoad(r) ==
  /\ ops[r].pc = "load"
  /\ IF ops[r].call \notin CallIds
       THEN /\ ops' = SetOp(r, "rejected", 0)
            /\ inbox' = EmitSocket(inbox, ops[r].conn, OpEv("call_error", r))
       ELSE IF ops[r].user = NoUser /\ ops[r].kind # "end"
         THEN /\ ops' = SetOp(r, "failed", calls[ops[r].call])
              /\ inbox' = EmitSocket(inbox, ops[r].conn, OpEv("call_error", r))
         ELSE /\ ops' = SetOp(r, IF ops[r].kind = "accept" THEN "status"
                                                           ELSE "save",
                              calls[ops[r].call])
              /\ UNCHANGED inbox
  /\ UNCHANGED <<sessionVars, chats, messages, sends, marks, calls, inits,
                 presenceVars, statusVars, muts, listens, relays, clock>>

\* the save of a step: a version conflict rejects it and the catch block
\* reports call_error; otherwise the delta is stored
SaveStep(r, modified, pc, box) ==
  LET id == ops[r].call
  IN /\ clock' = clock + 1
     /\ IF VersionError(calls[id], ops[r].doc, modified)
          THEN /\ ops' = SetOp(r, "failed", ops[r].doc)
               /\ inbox' = EmitSocket(inbox, ops[r].conn, OpEv("call_error", r))
               /\ UNCHANGED calls
          ELSE /\ calls' = [calls EXCEPT
                              ![id] = saveCall(@, ops[r].doc, modified)]
               /\ ops' = SetOp(r, pc, Saved(r, modified))
               /\ inbox' = box
     /\ UNCHANGED <<sessionVars, chats, messages, sends, marks, inits,
                    presenceVars, statusVars, muts, listens, relays>>

\* accept_call: await call.updateParticipantStatus(userId, 'connected')
AcceptStatus(r) ==
  /\ ops[r].pc = "status"
  /\ SaveStep(r, updateParticipantStatus(ops[r].doc, ops[r].user,
                                         "connected", clock),
              "start", inbox)

\* accept_call: await call.startCall(), then call_accepted to the rooms of
\* the participants
AcceptStart(r) ==
  /\ ops[r].pc = "start"
  /\ SaveStep(r, startCall(ops[r].doc, clock), "done",
              EmitToParticipants(inbox, ops[r].doc, OpEv("call_accepted", r)))

\* decline_call: await call.declineCall(userId), then call_declined
DeclineSave(r) ==
  /\ ops[r].pc = "save" /\ ops[r].kind = "decline"
  /\ SaveStep(r, declineCall(ops[r].doc, ops[r].user, clock), "done",
              EmitToParticipants(inbox, ops[r].doc, OpEv("call_declined", r)))

\* end_call: await call.endCall('completed'), then call_ended
EndSave(r) ==
  /\ ops[r].pc = "save" /\ ops[r].kind = "end"
  /\ SaveStep(r, endCall(ops[r].doc, "completed", clock), "done",
              EmitToParticipants(inbox, ops[r].doc, OpEv("call_ended", r)))

\* the database rejects the query or the save of a step
OpFail(r) ==
  /\ ops[r].pc \in {"load", "status", "start", "save"}
  /\ ops' = [ops EXCEPT ![r].pc = "failed"]
  /\ inbox' = EmitSocket(inbox, ops[r].conn, OpEv("call_error", r))
  /\ UNCHANGED <<sessionVars, chats, messages, sends, marks, calls, inits,
                 presenceVars, statusVars, muts, listens, relays, clock>>

\* A, B and C are connected and authenticated, A's call to B is ringing
RingingCall == NewCall("A", "B")

InitLife ==
  /\ connState = [c \in Conns |-> "open"]
  /\ userId = [c \in Conns |-> ClientUser(c)]
  /\ nAuth = [c \in Conns |-> 1]
  /\ rooms = [c \in Conns |-> {ClientUser(c)}]
  /\ inbox = [c \in Conns |-> <<>>]
  /\ online = [u \in Users |-> \E c \in Conns : ClientUser(c) = u]
  /\ offs = [c \in Conns |-> NoUser]
  /\ status = [u \in Users |-> "online"]
  /\ updates = <<>>
  /\ muts = <<>>
  /\ InitChats
  /\ messages = <<>>
  /\ sends = <<>>
  /\ marks = <<>>
  /\ calls = <<RingingCall>>
  /\ inits = <<>>
  /\ ops = <<>>
  /\ relays = <<>>
  /\ clock = 1
  /\ listens = CallEvents

\* the events a connection sends about the call: the caller's device hangs
\* up, the device of anybody else accepts, declines or hangs up
OpKinds(c) ==
  IF ClientUser(c) = RingingCall.caller
    THEN {"end"}
    ELSE {"accept", "decline", "end"}

OpNext ==
  \/ \E c \in Conns, id \in CallIds \cup {UnknownCall} :
        \E kind \in OpKinds(c) : CallOp(c, kind, id)
  \/ \E r \in OpIds : OpLoad(r)
  \/ \E r \in OpIds : AcceptStatus(r)
  \/ \E r \in OpIds : AcceptStart(r)
  \/ \E r \in OpIds : DeclineSave(r)
  \/ \E r \in OpIds : EndSave(r)
  \/ \E r \in OpIds : OpFail(r)

NextLife == OpNext

SpecLife == InitLife /\ [][NextLife]_vars

\* ------------------------------------- presence (socket/auth.js, status.js)
\* the devices of the presence runs all belong to A or B
DeviceUsers == {"A", "B"}

\* what a client can put in the handshake or in an authenticate event
AuthInputs == DeviceUsers \cup {NoToken, BadToken, GhostToken}

\* the clients listen to the session and presence events
InitWatch ==
  /\ InitSession
  /\ InitPresence
  /\ InitStore
  /\ listens = PresenceEvents

OfflineNext ==
  \/ \E c \in Conns : OfflineSaved(c)
  \/ \E c \in Conns : OfflineFail(c)

NextPresence ==
  \/ \E c \in Conns, hs \in {NoToken, "A"} : Connect(c, hs)
  \/ \E c \in Conns, tok \in AuthInputs : Authenticate(c, tok)
  \/ \E c \in Conns, tok \in DeviceUsers : AuthenticateSaveFail(c, tok)
  \/ \E c \in Conns : Disconnect(c)
  \/ OfflineNext

SpecPresence == InitWatch /\ [][NextPresence]_vars

\* the event loop resumes every handler that is suspended at an await
SpecPresenceFair ==
  SpecPresence /\ \A c \in Conns : WF_vars(OfflineSaved(c) \/ OfflineFail(c))

\* ------------------------------------------ update_status (socket/status.js)
UpdateIds == 1..Len(updates)

\* the values of User.status
Statuses == {"online", "away", "busy", "offline"}

\* the statuses the clients of these runs choose
StatusInputs == {"away", "online"}

\* User.contacts: A and B have each other as a contact, C is nobody's
Contacts(u) ==
  CASE u = "A" -> {"B"}
    [] u = "B" -> {"A"}
    [] OTHER -> {}

\* {userId, status, isOnline, lastSeen, timestamp}
StatusEv(r, u, st) ==
  [type |-> "user_status_update", req |-> r, msg |-> 0, tempId |-> u,
   status |-> st, isOnline |-> st = "online"]

\* socket.on('update_status'): without a userId the handler returns, else
\* it suspends at User.findById
UpdateStatus(c, st) ==
  /\ Live(c)
  /\ Len(updates) < MaxUpdates
  /\ updates' = Append(updates,
                        [conn |-> c, user |-> userId[c], status |-> st,
                         pc |-> IF userId[c] = NoUser THEN "returned"
                                                      ELSE "save"])
  /\ UNCHANGED <<sessionVars, inbox, chats, messages, sends, marks, calls,
                 inits, presenceVars, status, muts, opVars>>

\* update_status after user.save(): status and isOnline are stored and
\* user_status_update is broadcast to every other socket
UpdateSaved(r) ==
  /\ updates[r].pc = "save"
  /\ updates' = [updates EXCEPT ![r].pc = "done"]
  /\ status' = [status EXCEPT ![updates[r].user] = updates[r].status]
  /\ online' = [online EXCEPT ![updates[r].user] = updates[r].status = "online"]
  /\ inbox' = EmitTo(inbox, Others(updates[r].conn),
                     StatusEv(r, updates[r].user, updates[r].status))
  /\ UNCHANGED <<sessionVars, chats, messages, sends, marks, calls, inits,
                 offs, muts, opVars>>

\* update_status when User.findById or user.save() rejects: the catch block
\* only logs
UpdateFail(r) ==
  /\ updates[r].pc = "save"
  /\ updates' = [updates EXCEPT ![r].pc = "failed"]
  /\ UNCHANGED <<sessionVars, inbox, chats, messages, sends, marks, calls,
                 inits, presenceVars, status, muts, opVars>>

\* the clients listen to the presence updates of other users
InitContacts ==
  /\ InitSession
  /\ InitPresence
  /\ InitStore
  /\ listens = StatusEvents

UpdateNext ==
  \/ \E c \in Conns, st \in StatusInputs : UpdateStatus(c, st)
  \/ \E r \in UpdateIds : UpdateSaved(r)
  \/ \E r \in UpdateIds : UpdateFail(r)

NextContacts ==
  \/ \E c \in Conns : Connect(c, NoToken)
  \/ \E c \in Conns : Authenticate(c, ClientUser(c))
  \/ \E c \in Conns : Disconnect(c)
  \/ OfflineNext
  \/ UpdateNext

SpecContacts == InitContacts /\ [][NextContacts]_vars


\* ------------------- typing_* (socket/chat.js) and webrtc_* (socket/call.js)
MaxRelays == 2       \* typing_* and webrtc_* events received in a run

RelayIds == 1..Len(relays)
SignalKinds == {"webrtc_offer", "webrtc_answer", "webrtc_ice_candidate"}
Payloads == {"sdp1", "sdp2"}     \* offers, answers and candidates
OtherCall == 7                   \* the callId a signaling payload names

\* in the relay runs A has two devices and B has the other ones
DeviceOwner(c) == IF c <= 2 THEN "A" ELSE "B"

\* {userId, chatId, isTyping}
TypingEv(r, u, ch, isTyping) ==
  [type |-> "user_typing", req |-> r, msg |-> ch, tempId |-> u,
   isTyping |-> isTyping]

\* {callId, fromUserId, offer | answer | candidate}
SignalEv(kind, r, from, payload) ==
  [type |-> kind, req |-> r, msg |-> OtherCall, tempId |-> from,
   payload |-> payload]

\* socket.on('typing_start' | 'typing_stop'): with a chatId and a userId the
\* event goes to the other sockets of the chat's room
Typing(c, ch, isTyping) ==
  /\ Live(c)
  /\ Len(relays) < MaxRelays
  /\ LET r == Len(relays) + 1
     IN /\ relays' = Append(relays,
                            [conn |-> c, user |-> userId[c],
                             kind |-> IF isTyping THEN "typing_start"
                                                  ELSE "typing_stop",
                             target |-> ch, payload |-> ""])
        /\ inbox' = IF ch # NoChat /\ userId[c] # NoUser
                      THEN EmitTo(inbox, InRoom(ch) \ {c},
                                  TypingEv(r, userId[c], ch, isTyping))
                      ELSE inbox
  /\ UNCHANGED <<sessionVars, chats, messages, sends, marks, calls, inits,
                 presenceVars, statusVars, muts, listens, ops, clock>>

\* a relay that looks the target's socket up in a one-socket-per-user map
SignalOneSocket(c, kind, target, payload) ==
  /\ Live(c)
  /\ Len(relays) < MaxRelays
  /\ LET r == Len(relays) + 1
         room == InRoom(target)
         one == IF room = {} THEN {}
                ELSE {CHOOSE d \in room : \A e \in room : d >= e}
     IN /\ relays' = Append(relays,
                            [conn |-> c, user |-> userId[c], kind |-> kind,
                             target |-> target, payload |-> payload])
        /\ inbox' = EmitTo(inbox, one, SignalEv(kind, r, userId[c], payload))
  /\ UNCHANGED <<sessionVars, chats, messages, sends, marks, calls, inits,
                 presenceVars, statusVars, muts, listens, ops, clock>>

\* socket.on('webrtc_offer' | 'webrtc_answer' | 'webrtc_ice_candidate'):
\* io.to(targetUserId).emit(kind, {callId, fromUserId, payload})
Signal(c, kind, target, payload) ==
  /\ Live(c)
  /\ Len(relays) < MaxRelays
  /\ LET r == Len(relays) + 1
     IN /\ relays' = Append(relays,
                            [conn |-> c, user |-> userId[c], kind |-> kind,
                             target |-> target, payload |-> payload])
        /\ inbox' = EmitTo(inbox, InRoom(target),
                           SignalEv(kind, r, userId[c], payload))
  /\ UNCHANGED <<sessionVars, chats, messages, sends, marks, calls, inits,
                 presenceVars, statusVars, muts, listens, ops, clock>>

\* the clients listen to the relayed events
InitRelay ==
  /\ InitSession
  /\ InitPresence
  /\ InitStore
  /\ listens = RelayEvents

\* a run names its payloads in order: one seen before, or the next new one
UsedPayloads == {relays[r].payload : r \in RelayIds} \cap Payloads

UsablePayloads ==
  UsedPayloads \cup
    (IF UsedPayloads = Payloads THEN {}
     ELSE {CHOOSE p \in Payloads \ UsedPayloads :
             \A q \in Payloads \ UsedPayloads : p = q \/ p = "sdp1"})

SignalNext ==
  \E c \in Conns, kind \in SignalKinds, target \in DeviceUsers :
    \E payload \in UsablePayloads : Signal(c, kind, target, payload)

NextSignal ==
  \/ \E c \in Conns : Connect(c, NoToken)
  \/ \E c \in Conns : Authenticate(c, DeviceOwner(c))
  \/ \E c \in Conns : AuthenticateSaveFail(c, DeviceOwner(c))
  \/ \E c \in Conns : Disconnect(c)
  \/ \E c \in Conns : OfflineSaved(c)
  \/ SignalNext

SpecSignal == InitRelay /\ [][NextSignal]_vars

TypingNext ==
  \E c \in Conns, ch \in ChatIds \cup {NoChat}, isTyping \in BOOLEAN :
    Typing(c, ch, isTyping)

NextTyping ==
  \/ \E c \in Conns : Connect(c, NoToken)
  \/ \E c \in Conns : Authenticate(c, DeviceOwner(c))
  \/ \E c \in Conns, ch \in ChatIds : JoinChat(c, ch)
  \/ \E ch \in ChatIds, u \in Removable : RemoveParticipant(ch, u)
  \/ \E c \in Conns : Disconnect(c)
  \/ OfflineNext
  \/ TypingNext

SpecTyping == InitRelay /\ [][NextTyping]_vars

\* the event loop resumes every handler that is suspended at an await
SpecTypingFair ==
  SpecTyping /\ \A c \in Conns : WF_vars(OfflineSaved(c) \/ OfflineFail(c))

\* ------------------------------------ events of an unauthenticated socket
MaxGuest == 3        \* events an unauthenticated connection sends in a run

\* the connections whose socket has no userId
Guests == {c \in Conns : Live(c) /\ userId[c] = NoUser}

\* the events the server has received so far
Received == Len(sends) + Len(marks) + Len(muts) + Len(ops) + Len(relays)

\* A and B are connected, authenticated and in the room of the chat, which
\* holds A's message; A's call to B is ringing; the third connection is
\* open and has not authenticated
InitGuest ==
  /\ connState = [c \in Conns |-> "open"]
  /\ userId = [c \in Conns |-> IF c <= 2 THEN ClientUser(c) ELSE NoUser]
  /\ nAuth = [c \in Conns |-> IF c <= 2 THEN 1 ELSE 0]
  /\ rooms = [c \in Conns |-> IF c <= 2 THEN {ClientUser(c), "ch1"} ELSE {}]
  /\ inbox = [c \in Conns |-> <<>>]
  /\ online = [u \in Users |-> u \in {"A", "B"}]
  /\ offs = [c \in Conns |-> NoUser]
  /\ status = [u \in Users |-> IF u \in {"A", "B"} THEN "online" ELSE "offline"]
  /\ updates = <<>>
  /\ muts = <<>>
  /\ InitChats
  /\ messages = <<StoredMessage>>
  /\ sends = <<>>
  /\ marks = <<>>
  /\ calls = <<RingingCall>>
  /\ inits = <<>>
  /\ ops = <<>>
  /\ relays = <<>>
  /\ clock = 1
  /\ listens = ChatEvents \cup CallEvents \cup MessageEvents \cup RelayEvents

\* the unauthenticated connection sends the events of the chat and of the
\* call, and the handlers run
NextGuest ==
  \/ \E c \in Guests, t \in TempIds :
        Received < MaxGuest /\ SendMessage(c, "ch1", t)
  \/ \E c \in Guests, kind \in {"delivered", "read"}, m \in MsgIds :
        Received < MaxGuest /\ MarkRecv(c, kind, m)
  \/ \E c \in Guests, m \in MsgIds, deleteForEveryone \in BOOLEAN :
        Received < MaxGuest
          /\ MutRecv(c, "delete_message", m, deleteForEveryone)
  \/ \E c \in Guests, kind \in {"accept", "decline", "end"}, id \in CallIds :
        Received < MaxGuest /\ CallOp(c, kind, id)
  \/ \E c \in Guests, kind \in SignalKinds, target \in {"A", "B"} :
        Received < MaxGuest /\ Signal(c, kind, target, "sdp1")
  \/ \E r \in MarkIds : MarkLoad(r)
  \/ \E r \in MutIds : MutLoad(r)
  \/ \E r \in MutIds : MutSave(r)
  \/ \E r \in OpIds : OpLoad(r)
  \/ \E r \in OpIds : EndSave(r)

SpecGuest == InitGuest /\ [][NextGuest]_vars

\* --------------------------------------- authenticate again on one socket
MaxReauths == 2      \* authenticate events a connection sends in such a run

\* a client authenticates, and authenticates again with the token of any
\* user, while offers are relayed to the rooms of the users
NextSwitch ==
  \/ \E c \in Conns : Connect(c, NoToken)
  \/ \E c \in Conns, tok \in DeviceUsers :
        nAuth[c] < MaxReauths /\ BindUser(c, tok)
  \/ \E c \in Conns, target \in DeviceUsers :
        Signal(c, "webrtc_offer", target, "sdp1")

SpecSwitch == InitRelay /\ [][NextSwitch]_vars

\* ================================================================ claims
\* new_message events for message m among the events of one connection
CountNew(box, m) ==
  Len(SelectSeq(box, LAMBDA e : e.type = "new_message" /\ e.msg = m))

\* events of handler instance r of the given type
CountOf(box, type, r) ==
  Len(SelectSeq(box, LAMBDA e : e.type = type /\ e.req = r))

\* user u has an entry in the stored chat ch with isActive set
ActiveIn(ch, u) ==
  /\ ch \in ChatIds
  /\ u \in DOMAIN chats[ch].participants
  /\ chats[ch].participants[u].isActive

\* the step in which send r emits new_message and completes
FanOutStep(r) == sends[r].pc = "update" /\ sends'[r].pc = "done"

\* C1 as stated: when a participant's message is fanned out, every live
\* authenticated connection of every other active participant receives
\* exactly one new_message for it, whatever else is true of the connection
\* (the handler's own comment: "Emit message to all participants in the
\* chat").
C1_AllLiveConnections ==
  [][\A r \in SendIds :
       FanOutStep(r) =>
         \A c \in Conns :
           (Live(c) /\ userId[c] # sends[r].user
              /\ ActiveIn(sends[r].chatId, userId[c]))
             => CountNew(inbox'[c], sends[r].msg) = 1]_vars

\* C2 as stated: two sends of one sender to one chat with the same temp id
\* persist one message and are acknowledged with the same server id.
C2_IdempotentSend ==
  \A r1, r2 \in SendIds :
    (/\ r1 < r2
     /\ sends[r1].user = sends[r2].user
     /\ sends[r1].chatId = sends[r2].chatId
     /\ sends[r1].tempId = sends[r2].tempId
     /\ sends[r1].pc = "done" /\ sends[r2].pc = "done")
      => /\ sends[r1].msg = sends[r2].msg
         /\ Cardinality({m \in MsgIds : messages[m].req \in {r1, r2}}) = 1

\* C6 as stated: a send from an authenticated connection that has run to
\* its end has given that connection (while it is connected) either a
\* new_message carrying the stored message's id and the temp id, or a
\* message_error.
C6_AckOrError ==
  \A r \in SendIds :
    (sends[r].pc \in SendExits /\ sends[r].user # NoUser /\ Live(sends[r].conn))
      => \/ CountOf(inbox[sends[r].conn], "message_error", r) >= 1
         \/ /\ sends[r].msg \in MsgIds
            /\ \E i \in 1..Len(inbox[sends[r].conn]) :
                 inbox[sends[r].conn][i] = NewMessage(r)

\* C7: a new_message names a message that is stored and was saved by the
\* send that emitted it; a send whose save failed has stored nothing, has
\* put no new_message on any connection and has answered its (connected)
\* sender with message_error.
C7_SentOnlyIfPersisted ==
  /\ \A c \in Conns : \A i \in 1..Len(inbox[c]) :
       inbox[c][i].type = "new_message"
         => /\ inbox[c][i].msg \in MsgIds
            /\ messages[inbox[c][i].msg].req = inbox[c][i].req
  /\ \A r \in SendIds :
       sends[r].pc = "failed"
         => /\ sends[r].msg = 0
            /\ \A m \in MsgIds : messages[m].req # r
            /\ \A c \in Conns : CountOf(inbox[c], "new_message", r) = 0
            /\ Live(sends[r].conn)
                 => CountOf(inbox[sends[r].conn], "message_error", r) = 1

\* a save failed while another connection was in the chat's room
C7_Witness ==
  \E r \in SendIds :
    /\ sends[r].pc = "failed" /\ Live(sends[r].conn)
    /\ \E c \in InRoom(sends[r].chatId) : c # sends[r].conn

\* the sender of send r is an active participant of the stored chat
Authorized(r) == ActiveIn(sends[r].chatId, sends[r].user)

\* C8: when the chat lookup of a send resolves and the sender is not an
\* active participant of the chat, the send ends there: no message is
\* stored, no chat changes, no other connection gets an event, and the
\* sender's connection gets one message_error carrying the temp id.
C8_UnauthorizedRejected ==
  /\ [](\A r \in SendIds :
          sends[r].pc = "rejected"
            => /\ sends[r].msg = 0
               /\ \A m \in MsgIds : messages[m].req # r
               /\ \A c \in Conns : CountOf(inbox[c], "new_message", r) = 0)
  /\ [][\A r \in SendIds :
          (sends[r].pc = "load" /\ sends'[r].pc # "load" /\ ~Authorized(r))
            => /\ sends'[r].pc = "rejected"
               /\ messages' = messages
               /\ chats' = chats
               /\ \A c \in Conns \ {sends[r].conn} : inbox'[c] = inbox[c]
               /\ inbox'[sends[r].conn] =
                    IF Live(sends[r].conn)
                      THEN Append(inbox[sends[r].conn],
                                  Ev("message_error", r, 0, sends[r].tempId))
                      ELSE inbox[sends[r].conn]]_vars

\* a removed participant sent to the chat while others were in its room
C8_Witness ==
  \E r \in SendIds :
    /\ sends[r].pc = "rejected" /\ sends[r].user \in Users
    /\ sends[r].chatId \in ChatIds /\ ~Authorized(r)
    /\ CountOf(inbox[sends[r].conn], "message_error", r) = 1
    /\ \E c \in InRoom(sends[r].chatId) : c # sends[r].conn

\* C9 as stated: new_message for a chat reaches only connections whose
\* user is an active participant of the chat when it is emitted.
C9_OnlyParticipantsReceive ==
  [][\A r \in SendIds :
       FanOutStep(r) =>
         \A c \in Conns \ {sends[r].conn} :
           CountNew(inbox'[c], sends[r].msg) > CountNew(inbox[c], sends[r].msg)
             => ActiveIn(sends[r].chatId, userId[c])]_vars

\* the users recorded in a deliveredTo or readBy array
Recorded(seq) == {seq[i] : i \in 1..Len(seq)}

\* position of a message-level status along sent -> delivered -> read
Rank(st) == CASE st = "sent" -> 0 [] st = "delivered" -> 1 [] OTHER -> 2

\* C3 as stated: under message_delivered and message_read events a user
\* recorded in deliveredTo or readBy stays recorded, and the message-level
\* status never moves backward along sent -> delivered -> read.
C3_StateOnlyAdvances ==
  [][\A m \in MsgIds :
       /\ Recorded(messages[m].deliveredTo) \subseteq Recorded(messages'[m].deliveredTo)
       /\ Recorded(messages[m].readBy) \subseteq Recorded(messages'[m].readBy)
       /\ Rank(messages'[m].status) >= Rank(messages[m].status)]_vars

\* C4 as stated: whoever is recorded in readBy is recorded in deliveredTo.
C4_ReadImpliesDelivered ==
  \A m \in MsgIds :
    Recorded(messages[m].readBy) \subseteq Recorded(messages[m].deliveredTo)

\* C5: two message_read handlers of different users for one message, in
\* any interleaving of their loads and saves: once both have completed both
\* users are in readBy, and (no message_delivered handler being involved)
\* the message's status is read.
C5_ConcurrentReadKeepsBoth ==
  \A r1, r2 \in MarkIds :
    (/\ marks[r1].kind = "read" /\ marks[r2].kind = "read"
     /\ marks[r1].msg = marks[r2].msg
     /\ marks[r1].pc = "done" /\ marks[r2].pc = "done")
      => /\ {marks[r1].user, marks[r2].user}
              \subseteq Recorded(messages[marks[r1].msg].readBy)
         /\ (\A r \in MarkIds :
               marks[r].msg = marks[r1].msg => marks[r].kind = "read")
              => messages[marks[r1].msg].status = "read"

\* two users' message_read handlers both loaded the message before either
\* saved, and both have completed
C5_Witness ==
  \E r1, r2 \in MarkIds :
    /\ marks[r1].kind = "read" /\ marks[r2].kind = "read"
    /\ marks[r1].msg = marks[r2].msg
    /\ marks[r1].user # marks[r2].user
    /\ marks[r1].pc = "done" /\ marks[r2].pc = "done"
    /\ marks[r1].doc.readBy = <<>> /\ marks[r2].doc.readBy = <<>>

\* C10 as stated: when initiate_call is relayed and the target user has no
\* live connection, the call does not stay in status ringing.
C10_UnreachableTargetNotRinging ==
  [][\A r \in InitIds :
       (inits[r].pc = "save" /\ inits'[r].pc = "done"
          /\ InRoom(inits[r].target) = {})
         => calls'[inits'[r].call].status # "ringing"]_vars

\* ------------------------------------------------------ session, presence
\* connection c is live and the server told it that it is authenticated as u
Bound(c, u) ==
  /\ Live(c)
  /\ userId[c] = u
  /\ \E i \in DOMAIN inbox[c] :
       inbox[c][i].type = "authenticated" /\ inbox[c][i].tempId = u

\* user_offline events about user u among the events of one connection
CountOffline(box, u) ==
  Len(SelectSeq(box, LAMBDA e : e.type = "user_offline" /\ e.tempId = u))

\* C16 as stated: a user goes offline only when their last connection is
\* removed: a step that turns the stored isOnline of a user off, or that
\* emits user_offline about the user to some connection, leaves no live
\* authenticated connection of that user.
C16_OfflineOnlyAfterLast ==
  [][\A u \in Users :
       (\/ online[u] /\ ~online'[u]
        \/ \E d \in Conns : /\ connState'[d] = "open"
                            /\ CountOffline(inbox'[d], u) > CountOffline(inbox[d], u))
         => ~\E c \in Conns : connState'[c] = "open" /\ userId'[c] = u]_vars

\* C17 as stated: a connection opened with a valid token in the handshake,
\* whose client never sends an authenticate event, is eventually bound to
\* the token's user, in the user's room, and told authenticated.
C17_HandshakeBinds ==
  \A c \in Conns, u \in Users :
    [](( /\ Live(c)
         /\ \E i \in DOMAIN inbox[c] :
              inbox[c][i].type = "authenticate" /\ inbox[c][i].tempId = u)
        => <>(\/ Bound(c, u) /\ u \in rooms[c]
              \/ ~Live(c)
              \/ nAuth[c] > 0))

\* the step in which connection c is refused with a token that is missing,
\* fails verification or names no stored user
FailedBind(c) ==
  /\ nAuth'[c] = nAuth[c] + 1
  /\ Len(inbox'[c]) = Len(inbox[c]) + 1
  /\ inbox'[c][Len(inbox'[c])].type = "authentication_error"
  /\ inbox'[c][Len(inbox'[c])].tempId \in {NoToken, BadToken, GhostToken}

\* C18: a failed bind binds no user id to the connection, joins it to no
\* room, changes no user's stored online status and emits
\* authentication_error to that connection only.
C18_FailedBindLeavesUnbound ==
  [][\A c \in Conns :
       FailedBind(c)
         => /\ userId' = userId
            /\ rooms' = rooms
            /\ online' = online
            /\ \A d \in Conns \ {c} : inbox'[d] = inbox[d]]_vars

\* a live connection that was refused for each of the three reasons'
\* representative and is bound to nobody, while another user is online
C18_Witness ==
  \E c \in Conns :
    /\ Live(c)
    /\ userId[c] = NoUser /\ rooms[c] = {}
    /\ \E i \in DOMAIN inbox[c] :
         /\ inbox[c][i].type = "authentication_error"
         /\ inbox[c][i].tempId = GhostToken
    /\ \E d \in Conns \ {c} : Bound(d, "A")

\* ------------------------------------------------------------ call states
\* the positions of the participants of a call document with status st
WithStatus(doc, st) ==
  {i \in DOMAIN doc.participants : doc.participants[i].status = st}

StatusOf(doc) == [i \in DOMAIN doc.participants |-> doc.participants[i].status]

\* C11 as stated: a call whose call-level status is connected has at least
\* two participants whose own status is connected.
C11_ConnectedNeedsTwo ==
  \A id \in CallIds :
    calls[id].status = "connected"
      => Cardinality(WithStatus(calls[id], "connected")) >= 2

\* C12 as stated: once a call is ended, no later accept_call, decline_call
\* or end_call changes its status or the status of any of its participants.
C12_EndedIsAbsorbing ==
  [][\A id \in CallIds :
       calls[id].status = "ended"
         => /\ calls'[id].status = "ended"
            /\ StatusOf(calls'[id]) = StatusOf(calls[id])]_vars

\* the step in which handler r of the given kind has its save acknowledged
Performed(r, kind) ==
  /\ ops[r].kind = kind
  /\ ops[r].pc = "save"
  /\ ops'[r].pc = "done"

\* C13 as stated: a decline by a participant u leaves u declined; when at
\* most one participant that is not declined remains, the call is ended with
\* end reason declined, otherwise the call-level status is unchanged.
C13_DeclineEndsCall ==
  [][\A r \in OpIds :
       (Performed(r, "decline")
          /\ FindParticipant(calls[ops[r].call], ops[r].user) # 0)
         => LET old == calls[ops[r].call]
                new == calls'[ops[r].call]
                i == FindParticipant(old, ops[r].user)
            IN /\ new.participants[i].status = "declined"
               /\ IF Cardinality(DOMAIN new.participants
                                   \ WithStatus(new, "declined")) <= 1
                    THEN new.status = "ended" /\ new.endReason = "declined"
                    ELSE new.status = old.status]_vars

\* C14 as stated: an end of the call moves every participant that was
\* connected to disconnected with the duration from its own join time to the
\* end time, sets the call ended and leaves no participant connected.
C14_EndDisconnectsAll ==
  [][\A r \in OpIds :
       Performed(r, "end")
         => LET old == calls[ops[r].call]
                new == calls'[ops[r].call]
            IN /\ new.status = "ended"
               /\ WithStatus(new, "connected") = {}
               /\ \A i \in WithStatus(old, "connected") :
                    /\ new.participants[i].status = "disconnected"
                    /\ new.participants[i].duration
                         = new.endedAt - old.participants[i].joinedAt]_vars

\* ------------------------------------------------------ signaling, typing
\* the last event of connection d after a step that gave it one more event
Got(d) == inbox'[d][Len(inbox'[d])]

Gained(d) == Len(inbox'[d]) = Len(inbox[d]) + 1

C19_TypingToOthersOnly ==
  [][\A d \in Conns :
       (Gained(d) /\ Got(d).type = "user_typing")
         => /\ userId[d] # Got(d).tempId
            /\ ActiveIn(Got(d).msg, userId[d])]_vars

\* connection d of another user shows user u typing in chat ch: the last
\* user_typing event it holds about u and ch says isTyping
ShowsTyping(d, u, ch) ==
  /\ Live(d)
  /\ userId[d] \notin {u, NoUser}
  /\ \E i \in DOMAIN inbox[d] :
       /\ inbox[d][i].type = "user_typing"
       /\ inbox[d][i].tempId = u /\ inbox[d][i].msg = ch
       /\ inbox[d][i].isTyping
       /\ \A j \in (i + 1)..Len(inbox[d]) :
            ~(/\ inbox[d][j].type = "user_typing"
              /\ inbox[d][j].tempId = u /\ inbox[d][j].msg = ch)

\* C20 as stated: after a typing_start of U in chat C a stop for (C, U) is
\* eventually emitted to the connections that were told, also when U sends
\* no typing_stop or disconnects.
C20_TypingExpires ==
  \A d \in Conns, u \in Users, ch \in ChatIds :
    [](ShowsTyping(d, u, ch) => <>(~ShowsTyping(d, u, ch)))

\* -------------------------------------------------- presence recipients
\* the event is a presence update about a stored user
AboutUser(ev) == ev.type \in StatusEvents /\ ev.tempId \in Users

\* C21: a status or online/offline update of user U is delivered only to
\* connections of users in U's contacts: never to a connection of an
\* unrelated user nor to an unauthenticated connection.
C21_PresenceOnlyToContacts ==
  [][\A d \in Conns :
       (Gained(d) /\ connState[d] = "open" /\ AboutUser(Got(d)))
         => userId[d] \in Contacts(Got(d).tempId)]_vars

\* ---------------------------------------------------------- reactions
\* the reactions of user u on a document
ReactionsOf(doc, u) ==
  {i \in 1..Len(doc.reactions) : doc.reactions[i].userId = u}

\* the step is the successful save of handler r
SavedBy(r) == muts[r].pc = "save" /\ muts'[r].pc = "done"

\* C22: each message holds at most one reaction per user, and an
\* add_reaction by a user who already reacted replaces that user's reaction
\* with the new emoji and leaves the reactions of the other users unchanged.
C22_OneReactionPerUser ==
  [][/\ \A m \in MsgIds, u \in Users :
          Cardinality(ReactionsOf(messages'[m], u)) <= 1
     /\ \A r \in MutIds :
          (SavedBy(r) /\ muts[r].kind = "add_reaction")
            => LET m == muts[r].msg
                   u == muts[r].user
               IN /\ \E i \in ReactionsOf(messages'[m], u) :
                       messages'[m].reactions[i].emoji = muts[r].arg
                  /\ Without(messages'[m].reactions, u)
                       = Without(messages[m].reactions, u)]_vars

\* ------------------------------------------------------ edit and delete
\* handler r is a request to edit a stored message
IsEdit(r) == muts[r].kind \in {"edit_message", "PUT"} /\ muts[r].msg \in MsgIds

\* the step is the one in which handler r answers after findById
Answers(r) == muts[r].pc = "load" /\ muts'[r].pc # "load"

\* nothing is emitted to anybody but, over the socket, one error to the
\* requester
OnlyRequesterTold(r, message) ==
  /\ muts'[r].reply = message
  /\ \A d \in Conns :
        inbox'[d] = IF d = muts[r].conn /\ Live(d)
                      THEN Append(inbox[d], ErrorEv(r, message))
                      ELSE inbox[d]

\* C23: an edit of message m requested by a user other than m's sender,
\* over the socket or the REST route, leaves m's content and edit history
\* unchanged, reports an authorization error to the requester only, and
\* broadcasts no message_edited.
C23_EditIsSenderOnly ==
  [][\A r \in MutIds :
       (IsEdit(r) /\ Answers(r) /\ muts[r].user \in Users
          /\ muts[r].user # messages[muts[r].msg].sender)
         => /\ muts'[r].pc = "rejected"
            /\ messages' = messages
            /\ OnlyRequesterTold(r, IF muts[r].kind = "PUT"
                                      THEN "Can only edit your own messages"
                                      ELSE "Unauthorized to edit this message")]_vars

\* B's edits of A's message were refused over the socket and over REST
C23_Witness ==
  \E r, q \in MutIds :
    /\ muts[r].kind = "edit_message" /\ muts[r].user = "B"
    /\ muts[r].pc = "rejected"
    /\ muts[q].kind = "PUT" /\ muts[q].user = "B"
    /\ muts[q].pc = "rejected"
    /\ \E i \in 1..Len(inbox[muts[r].conn]) :
         inbox[muts[r].conn][i] = ErrorEv(r, "Unauthorized to edit this message")
    /\ messages[1].text = FirstText

\* handler r was requested by the sender of its message, later than window
\* after the message was created
LateBySender(r, window) ==
  /\ muts[r].msg \in MsgIds
  /\ muts[r].user = messages[muts[r].msg].sender
  /\ muts[r].at - messages[muts[r].msg].createdAt > window

\* C24: an edit requested by the sender later than the edit window (15
\* minutes) after the message was created is rejected with a stale-edit
\* error and leaves content and edit history unchanged, over the socket and
\* over the REST route alike.
C24_LateEditIsStale ==
  [][\A r \in MutIds :
       (IsEdit(r) /\ Answers(r) /\ LateBySender(r, fifteenMinutes))
         => /\ muts'[r].pc = "rejected"
            /\ messages' = messages
            /\ OnlyRequesterTold(r, "Message too old to edit")]_vars

\* handler r is a request to delete a stored message for everyone
IsDeleteForEveryone(r) ==
  /\ muts[r].msg \in MsgIds
  /\ \/ muts[r].kind = "delete_message" /\ muts[r].arg = TRUE
     \/ muts[r].kind = "DELETE" /\ muts[r].arg = "everyone"

\* C25: a delete for everyone requested by a non-sender, or by the sender
\* later than the allowed age (1 hour) after creation, leaves the message
\* not deleted and notifies no other connection, over the socket and over
\* the REST route alike.
C25_DeleteForEveryoneChecked ==
  [][\A r \in MutIds :
       (/\ IsDeleteForEveryone(r)
        /\ muts'[r] # muts[r]
        /\ muts[r].user \in Users
        /\ \/ muts[r].user # messages[muts[r].msg].sender
           \/ LateBySender(r, oneHour))
         => /\ messages'[muts[r].msg].isDeleted = messages[muts[r].msg].isDeleted
            /\ \A d \in Conns \ {muts[r].conn} : inbox'[d] = inbox[d]]_vars

\* ------------------------------------------------- failures after the save
\* C26: a failure of a step that follows the successful save of a message
\* (last-message update, unread counters, lookup of the offline recipients)
\* never fails the send: message_error is emitted only for sends that
\* persisted no message.
C26_ErrorOnlyIfNotPersisted ==
  \A c \in Conns : \A i \in 1..Len(inbox[c]) :
    inbox[c][i].type = "message_error"
      => \A m \in MsgIds : messages[m].req # inbox[c][i].req

\* ---------------------------------------------------- permission to send
\* send r comes from an active participant who is neither admin nor owner
\* of a group that restricts sending to its admins
Unpermitted(r) ==
  LET ch == sends[r].chatId
      u == sends[r].user
  IN /\ ch \in ChatIds
     /\ chats[ch].type = "group"
     /\ chats[ch].whoCanSendMessages = "admins"
     /\ isParticipant(chats[ch].participants, u)
     /\ ~isAdmin(chats[ch].participants, u)

\* C27: in a group whose settings restrict sending to admins, send_message
\* from an active participant who is neither admin nor owner is rejected
\* with message_error and persists no message.
C27_OnlyAdminsSend ==
  \A r \in SendIds :
    Unpermitted(r)
      => /\ sends[r].msg = 0
         /\ \A m \in MsgIds : messages[m].req # r
         /\ sends[r].pc \notin {"update", "done", "errored"}

\* ------------------------------------------- one status event per change
\* the step records user u in the delivery (or read) list of message m
Records(kind, m, u) ==
  IF kind = "delivered"
    THEN Has(messages'[m].deliveredTo, u) /\ ~Has(messages[m].deliveredTo, u)
    ELSE Has(messages'[m].readBy, u) /\ ~Has(messages[m].readBy, u)

\* C28: a message_status_update is emitted only when a recipient's delivery
\* state for the message actually changes; a repeated message_delivered or
\* message_read of the same user for the same message changes nothing and
\* emits no further status event.
C28_OneStatusEventPerChange ==
  [][\A d \in Conns :
       (Gained(d) /\ Got(d).type = "message_status_update")
         => LET r == Got(d).req
            IN Records(marks[r].kind, marks[r].msg, marks[r].user)]_vars

Ended(r) == muts[r].pc \in {"done", "failed"}

\* r is the only reaction or edit request of its user for its message
Alone(r) ==
  \A q \in MutIds \ {r} :
    muts[q].user # muts[r].user \/ muts[q].msg # muts[r].msg

\* the stored message shows what handler r asked for
Reflected(r) ==
  LET doc == messages[muts[r].msg]
      u == muts[r].user
  IN CASE muts[r].kind = "add_reaction" ->
            \E i \in ReactionsOf(doc, u) : doc.reactions[i].emoji = muts[r].arg
       [] muts[r].kind = "remove_reaction" -> ReactionsOf(doc, u) = {}
       [] OTHER -> doc.text = muts[r].arg

\* C30: when the handlers of two mutations of the same message by different
\* users interleave (reactions, an edit, message_delivered, message_read),
\* the stored message afterwards reflects both: no user's reaction or
\* delivery record is lost to the other's save.
C30_BothMutationsStored ==
  /\ \A r \in MutIds : (Ended(r) /\ Alone(r)) => Reflected(r)
  /\ \A q \in MarkIds :
       marks[q].pc = "done"
         => IF marks[q].kind = "delivered"
              THEN Has(messages[marks[q].msg].deliveredTo, marks[q].user)
              ELSE Has(messages[marks[q].msg].readBy, marks[q].user)

\* ------------------------------------------------------------ edit history
\* handler r's save resolves in this step
Succeeds(r) ==
  r \in MutIds /\ muts[r].pc = "save" /\ muts'[r].pc = "done"

\* C31: every successful edit appends the content that was in force
\* immediately before it to the edit history and leaves the earlier entries
\* unchanged and in order.
C31_EditHistoryAppendOnly ==
  [][\A r \in MutIds :
       (muts[r].kind = "edit_message" /\ Succeeds(r))
         => messages'[muts[r].msg].editHistory
              = Append(messages[muts[r].msg].editHistory,
                       messages[muts[r].msg].text)]_vars

\* ---------------------------------------------------------- delete for self
\* handler r is a request of a user to delete a stored message for itself
IsDeleteForSelf(r) ==
  /\ muts[r].msg \in MsgIds
  /\ muts[r].user \in Users
  /\ \/ muts[r].kind = "delete_message" /\ muts[r].arg = FALSE
     \/ muts[r].kind = "DELETE" /\ muts[r].arg = "me"

\* the entries of deletedFor that name user u
DeletedForEntries(doc, u) == {i \in 1..Len(doc.deletedFor) : doc.deletedFor[i] = u}

\* C32: a delete with scope self by user U records U in deletedFor at most
\* once, never sets isDeleted, leaves isDeletedForUser(V) unchanged for
\* every other user V, and emits message_deleted to no connection but the
\* one it came from.
C32_DeleteForSelfIsLocal ==
  [][\A r \in MutIds :
       (IsDeleteForSelf(r) /\ muts'[r] # muts[r])
         => LET m == muts[r].msg
                U == muts[r].user
            IN /\ Cardinality(DeletedForEntries(messages'[m], U)) <= 1
               /\ messages'[m].isDeleted = messages[m].isDeleted
               /\ \A V \in Users \ {U} :
                    isDeletedForUser(messages'[m], V)
                      = isDeletedForUser(messages[m], V)
               /\ \A d \in Conns \ {muts[r].conn} : inbox'[d] = inbox[d]]_vars

\* ------------------------------------------------- callers and bystanders
\* user u has an entry in the participants of the call
IsCallParticipant(doc, u) == FindParticipant(doc, u) # 0

ParticipantStatuses(doc) ==
  [i \in DOMAIN doc.participants |-> doc.participants[i].status]

\* C33: an accept_call, decline_call or end_call of a user who is not a
\* participant of the named call leaves the status of the call and the
\* status of every participant unchanged.
C33_OnlyParticipantsChangeCall ==
  [][\A r \in OpIds :
       (/\ ops[r].call \in CallIds
        /\ ops[r].user \in Users
        /\ ~IsCallParticipant(calls[ops[r].call], ops[r].user)
        /\ ops'[r] # ops[r])
         => /\ calls'[ops[r].call].status = calls[ops[r].call].status
            /\ ParticipantStatuses(calls'[ops[r].call])
                 = ParticipantStatuses(calls[ops[r].call])]_vars

\* ------------------------------------------------------------ missed calls
\* the receiver of a two-party call has answered it: accepted or declined
Answered(doc) == doc.participants[2].status \notin {"ringing", "calling"}

\* C34: a call is flagged missed only for receivers who never answered: a
\* call the receiver accepted and that was then ended, and a call the
\* receiver declined, are not flagged isMissed, and missedBy never contains
\* the caller.
C34_MissedOnlyIfUnanswered ==
  \A id \in CallIds :
    /\ calls[id].isMissed => ~Answered(calls[id])
    /\ ~Has(calls[id].missedBy, calls[id].caller)

\* ------------------------------------------- unauthenticated connections
\* the step receives, or advances the handler of, an event that connection
\* c sent while its socket had no userId
GuestActs(old, new, c) ==
  \E r \in DOMAIN new :
    /\ new[r].user = NoUser /\ new[r].conn = c
    /\ r \notin DOMAIN old \/ old[r] # new[r]

\* C35: an event received on a connection that has not authenticated
\* (send_message, message_delivered, message_read, delete_message,
\* accept_call, decline_call, end_call, webrtc_*) never changes a stored
\* message or call and is never relayed to another connection.
C35_GuestHasNoEffect ==
  [][\A c \in Conns :
       (\/ GuestActs(sends, sends', c) \/ GuestActs(marks, marks', c)
        \/ GuestActs(muts, muts', c) \/ GuestActs(ops, ops', c)
        \/ GuestActs(relays, relays', c))
         => /\ messages' = messages
            /\ calls' = calls
            /\ \A d \in Conns \ {c} : inbox'[d] = inbox[d]]_vars

\* ------------------------------------------------ one identity at a time
\* the personal rooms the connection is a member of
PersonalRooms(c) == rooms[c] \cap Users

\* C36: every live connection is a member of at most one user's personal
\* room, the room of the user it is bound to, so that after a second
\* authenticate as another user it receives nothing addressed to the first.
C36_OneIdentityPerConnection ==
  \A c \in Conns : Live(c) => PersonalRooms(c) \subseteq {userId[c]}

\* ------------------------------------------------- who changes a message
\* the users recorded in a delivery list or holding a reaction
UsersOf(seq) == {seq[i] : i \in 1..Len(seq)}
ReactingUsers(doc) == {doc.reactions[i].userId : i \in 1..Len(doc.reactions)}

\* C37: every user recorded in deliveredTo or readBy of a message, and
\* every user holding a reaction on it, is an active participant of the
\* message's chat, and no deliveredTo or readBy entry is the sender: a
\* delivery report, read report or reaction of a user outside the chat
\* leaves the message unchanged.
C37_OnlyRecipientsChangeMessage ==
  \A m \in MsgIds :
    LET doc == messages[m]
        marked == UsersOf(doc.deliveredTo) \cup UsersOf(doc.readBy)
    IN /\ \A u \in marked \cup ReactingUsers(doc) :
            isParticipant(chats[doc.chatId].participants, u)
       /\ doc.sender \notin marked

\* ---------------------------------------------------------- unread counts
\* the messages of the chat that other users than u have sent
SentByOthers(ch, u) ==
  {m \in MsgIds : messages[m].chatId = ch /\ messages[m].sender # u}

\* every send_message handler has run to its end without an error, and no
\* connection of u has reset a counter
Settled(u) ==
  /\ \A r \in SendIds : sends[r].pc \in {"done", "rejected"}
  /\ \A c \in Conns : userId[c] = u => ResetsOf(c) = 0

\* C38: the unread count of participant P in a chat is the number of
\* messages that other participants have sent to it since P's last reset,
\* also when two send_message handlers of the chat interleave; here, in the
\* states in which every send has ended and P has never reset.
C38_UnreadCountsExact ==
  \A ch \in ChatIds :
    \A P \in DOMAIN chats[ch].unreadCounts :
      Settled(P) =>
        chats[ch].unreadCounts[P] = Cardinality(SentByOthers(ch, P))

\* ------------------------------------------------------------- forwarding
\* C39: forward_message creates a copy in a target chat only if the
\* requesting user is an active participant of the chat of the original
\* message and of the target chat.
C39_ForwardOnlyBySeer ==
  \A m \in MsgIds :
    messages[m].forwardedFrom # NoChat
      => /\ isParticipant(chats[messages[m].forwardedFrom].participants,
                          messages[m].sender)
         /\ isParticipant(chats[messages[m].chatId].participants,
                          messages[m].sender)

\* ------------------------------------------------------------- tombstones
\* handler r found its message already deleted for everyone
FoundDeleted(r) ==
  /\ muts[r].pc = "save"
  /\ muts[r].doc.isDeleted
  /\ messages[muts[r].msg].isDeleted

\* C40: once a message is deleted for everyone, no later edit changes its
\* content or its edit history, and no message_edited is broadcast for it.
C40_TombstoneIsFrozen ==
  [][\A r \in MutIds :
       (IsEdit(r) /\ FoundDeleted(r) /\ muts'[r] # muts[r])
         => /\ messages'[muts[r].msg].text = messages[muts[r].msg].text
            /\ messages'[muts[r].msg].editHistory
                 = messages[muts[r].msg].editHistory
            /\ \A d \in Conns \ {muts[r].conn} : inbox'[d] = inbox[d]]_vars

=============================================================================
